---- MODULE Spec2Model ----
(***************************************************************************)
(* The HTTP CONNECT proxy fixture (test/core/end2end/fixtures/             *)
(* http_proxy_fixture.cc): one proxy_connection from on_accept to its      *)
(* release, its seven closures, the endpoints' pending operations and the  *)
(* proxy's combiner.                                                       *)
(*                                                                         *)
(* A step is either an endpoint completing an operation (the callback      *)
(* on_X_done, which re-initialises the closure and hands it to the         *)
(* combiner) or the combiner running the closure at the head of its queue  *)
(* (the handler on_X_done_locked).                                         *)
(***************************************************************************)
EXTENDS Integers, Sequences, FiniteSets, TLC

\* Successful relay reads an endpoint delivers, per side.
MaxReads == 2
\* Successful reads of the CONNECT request before the parser must have
\* reached the body or failed.
MaxRequestReads == 2

Sides == {"client", "server"}

Closures ==
    {"on_read_request_done", "on_server_connect_done", "on_write_response_done",
     "on_client_read_done", "on_client_write_done",
     "on_server_read_done", "on_server_write_done"}

\* The endpoint a closure's operation runs on ("none": the TCP connect).
EndpointOf(cl) ==
    IF cl \in {"on_read_request_done", "on_write_response_done",
               "on_client_read_done", "on_client_write_done"} THEN "client"
    ELSE IF cl \in {"on_server_read_done", "on_server_write_done"} THEN "server"
    ELSE "none"

\* enum failure_type
failure_type ==
    {"SETUP_FAILED", "CLIENT_READ_FAILED", "CLIENT_WRITE_FAILED",
     "SERVER_READ_FAILED", "SERVER_WRITE_FAILED"}

\* "HTTP/1.0 200 connected\r\n\r\n" as its bytes.
Response200 ==
    <<72, 84, 84, 80, 47, 49, 46, 48, 32, 50, 48, 48, 32,
      99, 111, 110, 110, 101, 99, 116, 101, 100, 13, 10, 13, 10>>

\* The bytes of one read of the CONNECT request (their content is the
\* parser's business; see ParseOutcomes).
RequestSlice == <<0>>

\* What feeding one read's slices leaves the HTTP parser with.
ParseOutcomes == {"error", "need_more", "body"}
Methods == {"CONNECT", "GET", "connect"}

\* Headers a request carries at most.
MaxHeaders == 2
\* Successful relay reads per side where liveness is checked.
MaxFairReads == 1
\* PING frames a transport receives.
MaxFrames == 4
\* cancel_stream batches in flight at once.
MaxCancels == 2
\* Batches without cancel_stream the transport holds at once.
MaxBatches == 2

\* The six operations of a grpc_transport_stream_op_batch, in the order
\* get_state_for_batch tests them.
OpKinds ==
    <<"send_initial_metadata", "send_message", "send_trailing_metadata",
      "recv_initial_metadata", "recv_message", "recv_trailing_metadata">>
RecvOps == {"recv_initial_metadata", "recv_message", "recv_trailing_metadata"}
\* A callback_state nothing has been stored in.
NoState == [original_closure |-> {}, free_when_done |-> FALSE,
            armed |-> FALSE]
\* "Basic " as its bytes.
BasicPrefix == <<66, 97, 115, 105, 99, 32>>
\* The credential the proxy is configured with: "a:b".
ExpectedCred == <<97, 58, 98>>
\* GRPC_ARG_HTTP_PROXY_AUTH_CREDS: absent (nullptr), or the credential.
AuthConfigs ==
    {[configured |-> FALSE, cred |-> <<>>],
     [configured |-> TRUE, cred |-> ExpectedCred]}
HeaderKeys == {"Proxy-Authorization", "proxy-authorization"}
\* Header values: "Basic YTpi" (a:b), "Basic YTpiYQ==" (a:ba), "basic YTpi",
\* and "Basic Y!pi" (not base64).
HeaderValues ==
    {BasicPrefix \o <<89, 84, 112, 105>>,
     BasicPrefix \o <<89, 84, 112, 105, 89, 81, 61, 61>>,
     <<98, 97, 115, 105, 99, 32, 89, 84, 112, 105>>,
     BasicPrefix \o <<89, 33, 112, 105>>}
Headers == [key : HeaderKeys, value : HeaderValues]
\* conn->http_request.hdrs, hdr_count <= MaxHeaders.
HeaderLists ==
    UNION {[1..n -> Headers] : n \in 0..MaxHeaders}
\* LookupHostnameBlocking: an error, an empty list, or addresses.
ResolveOutcomes == {"error", "empty", "addresses"}

VARIABLES
    conn,            \* struct proxy_connection
    users,           \* proxy->users
    pending,         \* closure -> operations registered with an endpoint
    queue,           \* the combiner: closures handed to Run, with their error
    shutdown_calls,  \* side -> calls of grpc_endpoint_shutdown
    delivered,       \* side -> bytes the endpoint has returned to reads
    handed,          \* side -> bytes handed to grpc_endpoint_write, in order
    readlog,         \* side -> bytes of the reads whose handler has run
    failed,          \* the relay failures the handlers have seen
    request_reads,   \* successful reads of the request
    phase,           \* the handshake / relay phase of the connection
    last,            \* the handler the combiner ran last and what it decided
    aborted,         \* GPR_ASSERT has terminated the process
    request,         \* the request the handler that ran last examined
    thd,             \* where the proxy's thread is in thread_main
    destroy_pc,      \* where the caller of ..._http_proxy_destroy is
    parser,          \* grpc_chttp2_ping_parser
    t,               \* grpc_chttp2_transport: its ping fields
    g_disable_ping_ack,  \* frame_ping.cc's static flag
    wire,            \* the PING frame being received, and how far
    calld,           \* connected_channel's call_data: its callback_states
    heap,            \* the callback_states allocated for cancel_stream
    batches,         \* the batches the transport holds
    chanlog          \* what the callbacks of the filter have done

\* The variables of the chttp2 ping parser.
pingvars == <<parser, t, g_disable_ping_ack, wire>>
\* The variables of the connected-channel filter.
chanvars == <<calld, heap, batches, chanlog>>
libvars == <<pingvars, chanvars>>

vars == <<conn, users, pending, queue, shutdown_calls, delivered, handed,
          readlog, failed, request_reads, phase, last, aborted, request,
          thd, destroy_pc, libvars>>

(***************************************************************************)
(* struct proxy_connection, zero-initialised (grpc_core::Zalloc).          *)
(* allocated / destroy_count are the lifetime of the allocation itself.    *)
(***************************************************************************)
ZeroConn ==
    [allocated |-> FALSE, destroy_count |-> 0,
     refcount |-> 0,
     server_endpoint |-> FALSE,
     client_read_failed |-> FALSE, client_write_failed |-> FALSE,
     client_shutdown |-> FALSE,
     server_read_failed |-> FALSE, server_write_failed |-> FALSE,
     server_shutdown |-> FALSE,
     client_read_buffer |-> <<>>, client_deferred_write_buffer |-> <<>>,
     client_is_writing |-> FALSE, client_write_buffer |-> <<>>,
     server_read_buffer |-> <<>>, server_deferred_write_buffer |-> <<>>,
     server_is_writing |-> FALSE, server_write_buffer |-> <<>>,
     http_parser_state |-> "FIRST_LINE",
     closure_cb |-> [cl \in Closures |-> "none"]]

\* GRPC_CLOSURE_INIT(&c->cl, fn, c, ...): the function the closure will call,
\* "callback" for on_X_done, "locked" for on_X_done_locked.
GRPC_CLOSURE_INIT(c, cl, fn) == [c EXCEPT !.closure_cb[cl] = fn]

\* The handler initialises each closure it registers with an endpoint
\* operation to the operation's callback.
InitIssued(c, issued) ==
    [c EXCEPT !.closure_cb =
        [cl \in Closures |-> IF cl \in issued THEN "callback" ELSE @[cl]]]

NoLast ==
    [handler |-> "none", ok |-> TRUE, failure |-> "NONE",
     shutdown_client |-> FALSE, shutdown_server |-> FALSE]

\* No request examined: the handler that ran last did not reach the
\* request's method.
NoRequest ==
    [method |-> "", auth |-> [configured |-> FALSE, cred |-> <<>>],
     hdrs |-> <<>>, res |-> "", stages |-> <<>>, result |-> "none"]

Init ==
    /\ conn = ZeroConn
    /\ users = 1
    /\ pending = [cl \in Closures |-> 0]
    /\ queue = <<>>
    /\ shutdown_calls = [s \in Sides |-> 0]
    /\ delivered = [s \in Sides |-> 0]
    /\ handed = [s \in Sides |-> <<>>]
    /\ readlog = [s \in Sides |-> <<>>]
    /\ failed = [f \in failure_type \ {"SETUP_FAILED"} |-> FALSE]
    /\ request_reads = 0
    /\ phase = "NONE"
    /\ last = NoLast
    /\ aborted = FALSE
    /\ request = NoRequest
    /\ thd = "top"
    /\ destroy_pc = "idle"
    /\ parser = [byte |-> 0, is_ack |-> 0, opaque_8bytes |-> <<0, 0, 0, 0>>]
    /\ t = [created |-> FALSE, is_client |-> FALSE,
            ping_ack_count |-> 0, ping_ack_capacity |-> 0, ping_acks |-> <<>>,
            num_pending_induced_frames |-> 0,
            acked |-> <<>>, writes |-> 0, ping_strikes |-> 0, frames |-> 0,
            completed |-> 0, closed |-> FALSE]
    /\ g_disable_ping_ack = FALSE
    /\ wire = [open |-> FALSE, frame |-> <<>>, pos |-> 0, empty_seen |-> FALSE]
    /\ calld = [on_complete |-> [i \in 0..5 |-> NoState],
                ready |-> [op \in RecvOps |-> NoState]]
    /\ heap = [a \in 1..MaxCancels |-> [live |-> FALSE, state |-> NoState]]
    /\ batches = {}
    /\ chanlog = [overwritten |-> FALSE, misrouted |-> FALSE,
                  bad_free |-> FALSE, mallocs |-> 0, frees |-> 0, ran |-> 0]

----------------------------------------------------------------------------
(* Reference counting *)

\* Mutant: a ref is taken twice.
proxy_connection_ref_twice(c) == [c EXCEPT !.refcount = @ + 2]

proxy_connection_ref(c) == [c EXCEPT !.refcount = @ + 1]

\* Mutant: the destroy block runs on every unref (the test of gpr_unref's
\* result is lost).
proxy_connection_unref_always_destroys(c) ==
    [c EXCEPT !.refcount = @ - 1, !.allocated = FALSE,
              !.destroy_count = @ + 1]

\* gpr_unref returns true when the count it decremented was 1; the
\* endpoints, the buffers and the connection are then destroyed.
proxy_connection_unref(c) ==
    IF c.refcount = 1
    THEN [c EXCEPT !.refcount = 0, !.allocated = FALSE,
                   !.destroy_count = @ + 1]
    ELSE [c EXCEPT !.refcount = @ - 1]

----------------------------------------------------------------------------
(* proxy_connection_failed *)

\* Mutant: a failed server read selects the client whether or not it is
\* writing.
shutdown_client_while_writing(c, failure) ==
    IF failure = "SETUP_FAILED" THEN TRUE
    ELSE \/ (failure = "CLIENT_READ_FAILED" /\ c.client_write_failed)
         \/ (failure = "CLIENT_WRITE_FAILED" /\ c.client_read_failed)
         \/ failure = "SERVER_READ_FAILED"

shutdown_client(c, failure) ==
    IF failure = "SETUP_FAILED" THEN TRUE
    ELSE \/ (failure = "CLIENT_READ_FAILED" /\ c.client_write_failed)
         \/ (failure = "CLIENT_WRITE_FAILED" /\ c.client_read_failed)
         \/ (failure = "SERVER_READ_FAILED" /\ ~c.client_is_writing)

\* Mutant: a setup failure selects the client only.
shutdown_server_spares_setup(c, failure) ==
    \/ (failure = "SERVER_READ_FAILED" /\ c.server_write_failed)
    \/ (failure = "SERVER_WRITE_FAILED" /\ c.server_read_failed)
    \/ (failure = "CLIENT_READ_FAILED" /\ ~c.server_is_writing)

shutdown_server(c, failure) ==
    IF failure = "SETUP_FAILED" THEN TRUE
    ELSE \/ (failure = "SERVER_READ_FAILED" /\ c.server_write_failed)
         \/ (failure = "SERVER_WRITE_FAILED" /\ c.server_read_failed)
         \/ (failure = "CLIENT_READ_FAILED" /\ ~c.server_is_writing)

\* The calls of grpc_endpoint_shutdown the function makes, per side.
endpoint_shutdowns(c, failure) ==
    [s \in Sides |->
        IF s = "client"
        THEN IF shutdown_client(c, failure) /\ ~c.client_shutdown THEN 1 ELSE 0
        ELSE IF shutdown_server(c, failure) /\ ~c.server_shutdown
                /\ c.server_endpoint
             THEN 1 ELSE 0]

\* Mutant: the shutdown flags are assigned the decision instead of being set
\* once the endpoint has been shut down.
proxy_connection_failed_assigns_flags(c, failure) ==
    proxy_connection_unref(
        [c EXCEPT !.client_shutdown = shutdown_client(c, failure),
                  !.server_shutdown = shutdown_server(c, failure)
                                      /\ c.server_endpoint])

\* The connection the function leaves.
proxy_connection_failed(c, failure) ==
    LET c1 == IF shutdown_client(c, failure) /\ ~c.client_shutdown
              THEN [c EXCEPT !.client_shutdown = TRUE] ELSE c
        c2 == IF shutdown_server(c1, failure) /\ ~c1.server_shutdown
                 /\ c1.server_endpoint
              THEN [c1 EXCEPT !.server_shutdown = TRUE] ELSE c1
    IN  proxy_connection_unref(c2)

----------------------------------------------------------------------------
(* Buffers and helpers *)

\* grpc_slice_buffer_move_into(src, dst): dst gets src's slices at its tail.
grpc_slice_buffer_move_into(src, dst) == dst \o src

WriteBuffer(c, s) ==
    IF s = "client" THEN c.client_write_buffer ELSE c.server_write_buffer
DeferredBuffer(c, s) ==
    IF s = "client" THEN c.client_deferred_write_buffer
    ELSE c.server_deferred_write_buffer
ReadBuffer(c, s) ==
    IF s = "client" THEN c.client_read_buffer ELSE c.server_read_buffer
IsWriting(c, s) ==
    IF s = "client" THEN c.client_is_writing ELSE c.server_is_writing
Shutdown(c, s) ==
    IF s = "client" THEN c.client_shutdown ELSE c.server_shutdown

\* What a handler that did not fail leaves: the connection, the closures it
\* registered with an endpoint operation, the sides it called
\* grpc_endpoint_write on.
Outcome(c, issued, written) ==
    [conn |-> c, issued |-> issued, written |-> written]

----------------------------------------------------------------------------
(* The handlers' bodies after their error check *)

\* Mutant: the read handler does not look at server_is_writing and always
\* starts a write.
on_client_read_done_locked_always_writes(c) ==
    Outcome(proxy_connection_ref(
              [c EXCEPT
                 !.server_write_buffer =
                     grpc_slice_buffer_move_into(c.client_read_buffer, @),
                 !.client_read_buffer = <<>>,
                 !.server_is_writing = TRUE]),
            {"on_server_write_done", "on_client_read_done"}, {"server"})

\* Mutant: a read whose bytes are deferred takes a ref as well.
on_client_read_done_locked_refs_deferred(c) ==
    IF c.server_is_writing
    THEN Outcome(proxy_connection_ref(
                   [c EXCEPT
                      !.server_deferred_write_buffer =
                          grpc_slice_buffer_move_into(c.client_read_buffer, @),
                      !.client_read_buffer = <<>>]),
                 {"on_client_read_done"}, {})
    ELSE Outcome(proxy_connection_ref(
                   [c EXCEPT
                      !.server_write_buffer =
                          grpc_slice_buffer_move_into(c.client_read_buffer, @),
                      !.client_read_buffer = <<>>,
                      !.server_is_writing = TRUE]),
                 {"on_server_write_done", "on_client_read_done"}, {"server"})

\* on_client_read_done_locked, error.ok()
on_client_read_done_locked_ok(c) ==
    IF c.server_is_writing
    THEN Outcome([c EXCEPT
                    !.server_deferred_write_buffer =
                        grpc_slice_buffer_move_into(c.client_read_buffer, @),
                    !.client_read_buffer = <<>>],
                 {"on_client_read_done"}, {})
    ELSE Outcome(proxy_connection_ref(
                   [c EXCEPT
                      !.server_write_buffer =
                          grpc_slice_buffer_move_into(c.client_read_buffer, @),
                      !.client_read_buffer = <<>>,
                      !.server_is_writing = TRUE]),
                 {"on_server_write_done", "on_client_read_done"}, {"server"})

\* Mutant: a read that starts a write takes no ref for it.
on_server_read_done_locked_no_ref(c) ==
    IF c.client_is_writing
    THEN Outcome([c EXCEPT
                    !.client_deferred_write_buffer =
                        grpc_slice_buffer_move_into(c.server_read_buffer, @),
                    !.server_read_buffer = <<>>],
                 {"on_server_read_done"}, {})
    ELSE Outcome([c EXCEPT
                    !.client_write_buffer =
                        grpc_slice_buffer_move_into(c.server_read_buffer, @),
                    !.server_read_buffer = <<>>,
                    !.client_is_writing = TRUE],
                 {"on_client_write_done", "on_server_read_done"}, {"client"})

\* Mutant: the test of client_is_writing is inverted.
on_server_read_done_locked_inverted(c) ==
    IF ~c.client_is_writing
    THEN Outcome([c EXCEPT
                    !.client_deferred_write_buffer =
                        grpc_slice_buffer_move_into(c.server_read_buffer, @),
                    !.server_read_buffer = <<>>],
                 {"on_server_read_done"}, {})
    ELSE Outcome(proxy_connection_ref(
                   [c EXCEPT
                      !.client_write_buffer =
                          grpc_slice_buffer_move_into(c.server_read_buffer, @),
                      !.server_read_buffer = <<>>,
                      !.client_is_writing = TRUE]),
                 {"on_client_write_done", "on_server_read_done"}, {"client"})

\* Mutant: the read handler starts a write on the client whether or not
\* one is in flight, re-initialising the closure of the write in flight.
on_server_read_done_locked_always_writes(c) ==
    Outcome(proxy_connection_ref(
              [c EXCEPT
                 !.client_write_buffer =
                     grpc_slice_buffer_move_into(c.server_read_buffer, @),
                 !.server_read_buffer = <<>>,
                 !.client_is_writing = TRUE]),
            {"on_client_write_done", "on_server_read_done"}, {"client"})

\* Mutant: a read whose bytes are deferred is not re-issued.
on_server_read_done_locked_no_rearm(c) ==
    IF c.client_is_writing
    THEN Outcome(proxy_connection_unref(
                   [c EXCEPT
                      !.client_deferred_write_buffer =
                          grpc_slice_buffer_move_into(c.server_read_buffer, @),
                      !.server_read_buffer = <<>>]),
                 {}, {})
    ELSE Outcome(proxy_connection_ref(
                   [c EXCEPT
                      !.client_write_buffer =
                          grpc_slice_buffer_move_into(c.server_read_buffer, @),
                      !.server_read_buffer = <<>>,
                      !.client_is_writing = TRUE]),
                 {"on_client_write_done", "on_server_read_done"}, {"client"})

\* on_server_read_done_locked, error.ok()
on_server_read_done_locked_ok(c) ==
    IF c.client_is_writing
    THEN Outcome([c EXCEPT
                    !.client_deferred_write_buffer =
                        grpc_slice_buffer_move_into(c.server_read_buffer, @),
                    !.server_read_buffer = <<>>],
                 {"on_server_read_done"}, {})
    ELSE Outcome(proxy_connection_ref(
                   [c EXCEPT
                      !.client_write_buffer =
                          grpc_slice_buffer_move_into(c.server_read_buffer, @),
                      !.server_read_buffer = <<>>,
                      !.client_is_writing = TRUE]),
                 {"on_client_write_done", "on_server_read_done"}, {"client"})

\* Mutant: the write of the deferred bytes drops the ref of the write that
\* completed.
on_client_write_done_locked_drops_ref(c) ==
    LET c1 == [c EXCEPT !.client_write_buffer = <<>>]
    IN  IF Len(c1.client_deferred_write_buffer) > 0
        THEN Outcome(proxy_connection_unref(
                        [c1 EXCEPT
                            !.client_write_buffer =
                                grpc_slice_buffer_move_into(
                                    c1.client_deferred_write_buffer, @),
                            !.client_deferred_write_buffer = <<>>,
                            !.client_is_writing = TRUE]),
                     {"on_client_write_done"}, {"client"})
        ELSE Outcome(proxy_connection_unref(c1), {}, {})

\* on_client_write_done_locked, error.ok(); c has client_is_writing cleared.
on_client_write_done_locked_ok(c) ==
    LET c1 == [c EXCEPT !.client_write_buffer = <<>>]
    IN  IF Len(c1.client_deferred_write_buffer) > 0
        THEN Outcome([c1 EXCEPT
                        !.client_write_buffer =
                            grpc_slice_buffer_move_into(
                                c1.client_deferred_write_buffer, @),
                        !.client_deferred_write_buffer = <<>>,
                        !.client_is_writing = TRUE],
                     {"on_client_write_done"}, {"client"})
        ELSE Outcome(proxy_connection_unref(c1), {}, {})

\* Mutant: the write buffer is not cleared after the write.
on_server_write_done_locked_keeps_buffer(c) ==
    IF Len(c.server_deferred_write_buffer) > 0
    THEN Outcome([c EXCEPT
                    !.server_write_buffer =
                        grpc_slice_buffer_move_into(
                            c.server_deferred_write_buffer, @),
                    !.server_deferred_write_buffer = <<>>,
                    !.server_is_writing = TRUE],
                 {"on_server_write_done"}, {"server"})
    ELSE Outcome(proxy_connection_unref(c), {}, {})

\* on_server_write_done_locked, error.ok(); c has server_is_writing cleared.
on_server_write_done_locked_ok(c) ==
    LET c1 == [c EXCEPT !.server_write_buffer = <<>>]
    IN  IF Len(c1.server_deferred_write_buffer) > 0
        THEN Outcome([c1 EXCEPT
                        !.server_write_buffer =
                            grpc_slice_buffer_move_into(
                                c1.server_deferred_write_buffer, @),
                        !.server_deferred_write_buffer = <<>>,
                        !.server_is_writing = TRUE],
                     {"on_server_write_done"}, {"server"})
        ELSE Outcome(proxy_connection_unref(c1), {}, {})

\* Mutant: the write's ref is dropped before the reads' refs are taken.
on_write_response_done_locked_unref_first(c) ==
    LET c1 == [c EXCEPT !.client_write_buffer = <<>>]
        c2 == proxy_connection_unref(c1)
        c3 == proxy_connection_ref(c2)
        c4 == proxy_connection_ref(c3)
    IN  Outcome(c4, {"on_client_read_done", "on_server_read_done"}, {})

\* Mutant: no ref is taken for the second read.
on_write_response_done_locked_one_ref(c) ==
    LET c1 == [c EXCEPT !.client_write_buffer = <<>>]
    IN  Outcome(c1, {"on_client_read_done", "on_server_read_done"}, {})

\* on_write_response_done_locked, error.ok(); c has client_is_writing
\* cleared.  Two refs for the two reads, then the write's own ref is dropped.
on_write_response_done_locked_ok(c) ==
    LET c1 == [c EXCEPT !.client_write_buffer = <<>>]
        c2 == proxy_connection_ref(c1)
        c3 == proxy_connection_ref(c2)
        c4 == proxy_connection_unref(c3)
    IN  Outcome(c4, {"on_client_read_done", "on_server_read_done"}, {})

\* Mutant: the response is written without the blank line that ends it.
on_server_connect_done_locked_short(c) ==
    Outcome([c EXCEPT !.client_write_buffer =
                           @ \o SubSeq(Response200, 1, Len(Response200) - 2),
                      !.client_is_writing = TRUE],
            {"on_write_response_done"}, {"client"})

\* Mutant: the origin's read is posted together with the response's write.
on_server_connect_done_locked_reads_early(c) ==
    Outcome(proxy_connection_ref(
              [c EXCEPT !.client_write_buffer = @ \o Response200,
                        !.client_is_writing = TRUE]),
            {"on_write_response_done", "on_server_read_done"}, {"client"})

\* on_server_connect_done_locked, error.ok()
on_server_connect_done_locked_ok(c) ==
    Outcome([c EXCEPT !.client_write_buffer = @ \o Response200,
                      !.client_is_writing = TRUE],
            {"on_write_response_done"}, {"client"})

----------------------------------------------------------------------------
(* Steps *)

\* Whether grpc_endpoint_shutdown has been called on the closure's endpoint.
EndpointIsShutDown(cl) ==
    /\ EndpointOf(cl) \in Sides
    /\ shutdown_calls[EndpointOf(cl)] > 0

\* An endpoint operation completes and its callback hands the closure to
\* the combiner.  An operation on an endpoint that has been shut down
\* completes with an error only.
Complete(cl, ok, c) ==
    /\ ~aborted
    /\ pending[cl] > 0
    /\ ok => ~EndpointIsShutDown(cl)
    /\ pending' = [pending EXCEPT ![cl] = @ - 1]
    /\ queue' = Append(queue, [closure |-> cl, ok |-> ok])
    /\ conn' = GRPC_CLOSURE_INIT(c, cl, "locked")
    /\ UNCHANGED <<users, shutdown_calls, handed, readlog, failed, phase,
                   last, aborted, request, thd, destroy_pc, libvars>>

\* The combiner runs the closure at the head of its queue.
Run(cl) ==
    /\ ~aborted
    /\ queue # <<>>
    /\ Head(queue).closure = cl
    /\ queue' = Tail(queue)

\* The handler called proxy_connection_failed(c, failure) and returned.
Failed(name, ok, c, failure) ==
    /\ conn' = proxy_connection_failed(c, failure)
    /\ users' = users - (conn'.destroy_count - conn.destroy_count)
    /\ shutdown_calls' =
          [s \in Sides |-> shutdown_calls[s] + endpoint_shutdowns(c, failure)[s]]
    /\ failed' = IF failure = "SETUP_FAILED" THEN failed
                 ELSE [failed EXCEPT ![failure] = TRUE]
    /\ phase' = IF conn'.allocated THEN phase ELSE "TEARDOWN"
    /\ last' = [handler |-> name, ok |-> ok, failure |-> failure,
                shutdown_client |-> shutdown_client(c, failure),
                shutdown_server |-> shutdown_server(c, failure)]
    /\ UNCHANGED <<pending, delivered, handed, readlog, request_reads, aborted,
                   thd, destroy_pc, libvars>>

\* The handler ran to its end with outcome o; reads names the sides whose
\* read buffer it consumed.
Done(name, o, reads, newphase) ==
    /\ conn' = InitIssued(o.conn, o.issued)
    /\ users' = users - (conn'.destroy_count - conn.destroy_count)
    /\ pending' = [cl \in Closures |->
                      pending[cl] + IF cl \in o.issued THEN 1 ELSE 0]
    /\ handed' = [s \in Sides |->
                     IF s \in o.written
                     THEN handed[s] \o WriteBuffer(o.conn, s) ELSE handed[s]]
    /\ readlog' = [s \in Sides |->
                      IF s \in reads
                      THEN readlog[s] \o ReadBuffer(conn, s) ELSE readlog[s]]
    /\ phase' = IF conn'.allocated THEN newphase ELSE "TEARDOWN"
    /\ last' = [NoLast EXCEPT !.handler = name]
    /\ UNCHANGED <<shutdown_calls, delivered, failed, request_reads, aborted,
                   thd, destroy_pc, libvars>>

\* GPR_ASSERT failed inside the handler: the process is gone.
Abort(name, c) ==
    /\ conn' = c
    /\ aborted' = TRUE
    /\ last' = [NoLast EXCEPT !.handler = name]
    /\ UNCHANGED <<users, pending, shutdown_calls, delivered, handed, readlog,
                   failed, request_reads, phase, thd, destroy_pc, libvars>>

on_accept ==
    /\ ~aborted
    /\ phase = "NONE"
    /\ users' = users + 1
    /\ conn' = GRPC_CLOSURE_INIT(
                  [ZeroConn EXCEPT !.allocated = TRUE, !.refcount = 1],
                  "on_read_request_done", "callback")
    /\ pending' = [pending EXCEPT !["on_read_request_done"] = @ + 1]
    /\ phase' = "READING_REQUEST"
    /\ UNCHANGED <<queue, shutdown_calls, delivered, handed, readlog, failed,
                   request_reads, last, aborted, request, thd, destroy_pc, libvars>>

on_read_request_done ==
    \E ok \in BOOLEAN :
        /\ ok => request_reads < MaxRequestReads
        /\ Complete("on_read_request_done", ok,
                    IF ok THEN [conn EXCEPT !.client_read_buffer = @ \o RequestSlice]
                    ELSE conn)
        /\ request_reads' = IF ok THEN request_reads + 1 ELSE request_reads
        /\ UNCHANGED delivered

----------------------------------------------------------------------------
(* The request: method, Proxy-Authorization, resolution *)

\* The value of a base64 character, -1 for a byte outside the alphabet.
b64_value(ch) ==
    IF ch \in 65..90 THEN ch - 65
    ELSE IF ch \in 97..122 THEN ch - 71
    ELSE IF ch \in 48..57 THEN ch + 4
    ELSE IF ch = 43 THEN 62
    ELSE IF ch = 47 THEN 63
    ELSE -1

\* Four base64 characters as the one, two or three bytes they encode; "="
\* pads the last group only.
b64_group(g, is_last) ==
    LET v == [i \in 1..4 |-> b64_value(g[i])]
        b1 == v[1] * 4 + (v[2] \div 16)
        b2 == (v[2] % 16) * 16 + (v[3] \div 4)
        b3 == (v[3] % 4) * 64 + v[4]
    IN  IF v[1] < 0 \/ v[2] < 0 THEN [ok |-> FALSE, bytes |-> <<>>]
        ELSE IF is_last /\ g[3] = 61 /\ g[4] = 61
             THEN [ok |-> TRUE, bytes |-> <<b1>>]
        ELSE IF v[3] < 0 THEN [ok |-> FALSE, bytes |-> <<>>]
        ELSE IF is_last /\ g[4] = 61 THEN [ok |-> TRUE, bytes |-> <<b1, b2>>]
        ELSE IF v[4] < 0 THEN [ok |-> FALSE, bytes |-> <<>>]
        ELSE [ok |-> TRUE, bytes |-> <<b1, b2, b3>>]

RECURSIVE b64_groups(_)
b64_groups(b64) ==
    IF b64 = <<>> THEN [ok |-> TRUE, bytes |-> <<>>]
    ELSE LET g == b64_group(SubSeq(b64, 1, 4), Len(b64) = 4)
             rest == b64_groups(SubSeq(b64, 5, Len(b64)))
         IN  [ok |-> g.ok /\ rest.ok, bytes |-> g.bytes \o rest.bytes]

\* grpc_base64_decode(b64, 0): the decoded bytes, the empty slice when b64
\* is not base64.
grpc_base64_decode(b64) ==
    IF Len(b64) % 4 # 0 THEN <<>>
    ELSE IF b64_groups(b64).ok THEN b64_groups(b64).bytes
    ELSE <<>>

proxy_auth_header_matches(proxy_auth_header_val, expected_cred) ==
    IF \/ Len(proxy_auth_header_val) < Len(BasicPrefix)
       \/ SubSeq(proxy_auth_header_val, 1, Len(BasicPrefix)) # BasicPrefix
    THEN FALSE
    ELSE grpc_base64_decode(SubSeq(proxy_auth_header_val,
                                   Len(BasicPrefix) + 1,
                                   Len(proxy_auth_header_val)))
            = expected_cred

\* Mutant: the loop does not break at the first Proxy-Authorization header,
\* so any of them can authenticate the client.
client_authenticated_any_header(hdrs, expected_cred) ==
    \E i \in 1..Len(hdrs) :
        /\ hdrs[i].key = "Proxy-Authorization"
        /\ proxy_auth_header_matches(hdrs[i].value, expected_cred)

\* The loop over the request's headers: the first header whose key is
\* Proxy-Authorization decides, and the loop breaks there.
client_authenticated(hdrs, expected_cred) ==
    LET found == {i \in 1..Len(hdrs) : hdrs[i].key = "Proxy-Authorization"}
    IN  IF found = {} THEN FALSE
        ELSE LET first == CHOOSE i \in found : \A j \in found : i <= j
             IN  proxy_auth_header_matches(hdrs[first].value, expected_cred)

----------------------------------------------------------------------------
\* The stages of on_read_request_done_locked once the request is complete,
\* in the order the code enters them.
StageOrder == <<"validate_method", "auth_check", "resolve", "connect_origin">>

\* Mutant: the host is resolved before the credential is checked.
request_stages_resolves_first(method, auth, hdrs, res) ==
    IF method # "CONNECT"
    THEN [stages |-> <<"validate_method">>, result |-> "failed"]
    ELSE IF res = "error"
    THEN [stages |-> <<"validate_method", "resolve">>, result |-> "failed"]
    ELSE IF auth.configured /\ ~client_authenticated(hdrs, auth.cred)
    THEN [stages |-> <<"validate_method", "resolve", "auth_check">>,
          result |-> "failed"]
    ELSE IF res = "empty"
    THEN [stages |-> <<"validate_method", "resolve", "auth_check">>,
          result |-> "aborted"]
    ELSE [stages |-> <<"validate_method", "resolve", "auth_check",
                       "connect_origin">>, result |-> "connect"]

\* Mutant: the resolver's list is not asserted non-empty before addresses[0]
\* is dialed.
request_stages_no_assert(method, auth, hdrs, res) ==
    IF method # "CONNECT"
    THEN [stages |-> SubSeq(StageOrder, 1, 1), result |-> "failed"]
    ELSE IF auth.configured /\ ~client_authenticated(hdrs, auth.cred)
    THEN [stages |-> SubSeq(StageOrder, 1, 2), result |-> "failed"]
    ELSE IF res = "error"
    THEN [stages |-> SubSeq(StageOrder, 1, 3), result |-> "failed"]
    ELSE [stages |-> StageOrder, result |-> "connect"]

\* What the handler does with a complete request: the stages it enters and
\* whether it ends in proxy_connection_failed, in the failed GPR_ASSERT, or
\* in grpc_tcp_client_connect.
request_stages(method, auth, hdrs, res) ==
    IF method # "CONNECT"
    THEN [stages |-> SubSeq(StageOrder, 1, 1), result |-> "failed"]
    ELSE IF auth.configured /\ ~client_authenticated(hdrs, auth.cred)
    THEN [stages |-> SubSeq(StageOrder, 1, 2), result |-> "failed"]
    ELSE IF res = "error"
    THEN [stages |-> SubSeq(StageOrder, 1, 3), result |-> "failed"]
    ELSE IF res = "empty"
    THEN [stages |-> SubSeq(StageOrder, 1, 3), result |-> "aborted"]
    ELSE [stages |-> StageOrder, result |-> "connect"]

\* The request as far as the handler examined it: the headers only when a
\* credential is configured, the resolver's answer only when it was asked.
Examined(method, auth, hdrs, res, d) ==
    [method |-> method,
     auth |-> IF Len(d.stages) >= 2 THEN auth ELSE NoRequest.auth,
     hdrs |-> IF Len(d.stages) >= 2 /\ auth.configured THEN hdrs ELSE <<>>,
     res |-> IF "resolve" \in {d.stages[i] : i \in 1..Len(d.stages)}
             THEN res ELSE "",
     stages |-> d.stages, result |-> d.result]

\* on_read_request_done_locked for a request whose header list is one of
\* lists.
read_request_done_locked(lists) ==
    /\ Run("on_read_request_done")
    /\ LET ok == Head(queue).ok
           name == "on_read_request_done_locked"
           c1 == [conn EXCEPT !.client_read_buffer = <<>>]
           c2 == [c1 EXCEPT !.http_parser_state = "BODY"]
       IN  IF ~ok
           THEN Failed(name, ok, conn, "SETUP_FAILED") /\ request' = NoRequest
           ELSE \E parse \in ParseOutcomes :
                  \/ /\ parse = "error"
                     /\ Failed(name, ok, conn, "SETUP_FAILED")
                     /\ request' = NoRequest
                  \/ /\ parse = "need_more"
                     /\ request_reads < MaxRequestReads
                     /\ Done(name, Outcome(c1, {"on_read_request_done"}, {}),
                             {}, phase)
                     /\ request' = NoRequest
                  \/ /\ parse = "body"
                     /\ \E method \in Methods, auth \in AuthConfigs,
                           hdrs \in lists, res \in ResolveOutcomes :
                          LET d == request_stages(method, auth, hdrs, res)
                          IN  /\ request' = Examined(method, auth, hdrs, res, d)
                              /\ IF d.result = "failed"
                                 THEN Failed(name, ok, c2, "SETUP_FAILED")
                                 ELSE IF d.result = "aborted"
                                 THEN Abort(name, c2)
                                 ELSE Done(name,
                                           Outcome(c2, {"on_server_connect_done"}, {}),
                                           {}, "CONNECTING")

on_read_request_done_locked == read_request_done_locked(HeaderLists)

on_server_connect_done ==
    \E ok \in BOOLEAN :
        /\ Complete("on_server_connect_done", ok,
                    IF ok THEN [conn EXCEPT !.server_endpoint = TRUE] ELSE conn)
        /\ UNCHANGED <<delivered, request_reads>>

\* Mutant: the handler does not test the connect's status.
on_server_connect_done_locked_ignores_error ==
    /\ Run("on_server_connect_done")
    /\ request' = NoRequest
    /\ Done("on_server_connect_done_locked",
            on_server_connect_done_locked_ok(conn), {}, "WRITING_200")

on_server_connect_done_locked ==
    /\ Run("on_server_connect_done")
    /\ request' = NoRequest
    /\ LET ok == Head(queue).ok
           name == "on_server_connect_done_locked"
       IN  IF ~ok THEN Failed(name, ok, conn, "SETUP_FAILED")
           ELSE Done(name, on_server_connect_done_locked_ok(conn), {},
                     "WRITING_200")

on_write_response_done ==
    \E ok \in BOOLEAN :
        /\ Complete("on_write_response_done", ok, conn)
        /\ UNCHANGED <<delivered, request_reads>>

on_write_response_done_locked ==
    /\ Run("on_write_response_done")
    /\ request' = NoRequest
    /\ LET ok == Head(queue).ok
           name == "on_write_response_done_locked"
           c0 == [conn EXCEPT !.client_is_writing = FALSE]
       IN  IF ~ok THEN Failed(name, ok, c0, "SETUP_FAILED")
           ELSE Done(name, on_write_response_done_locked_ok(c0), {}, "RELAYING")

on_client_read_done ==
    \E ok \in BOOLEAN :
        /\ ok => delivered["client"] < MaxReads
        /\ Complete("on_client_read_done", ok,
                    IF ok
                    THEN [conn EXCEPT !.client_read_buffer =
                                          @ \o <<delivered["client"] + 1>>]
                    ELSE conn)
        /\ delivered' = IF ok THEN [delivered EXCEPT !["client"] = @ + 1]
                        ELSE delivered
        /\ UNCHANGED request_reads

on_client_read_done_locked ==
    /\ Run("on_client_read_done")
    /\ request' = NoRequest
    /\ LET ok == Head(queue).ok
           name == "on_client_read_done_locked"
       IN  IF ~ok THEN Failed(name, ok, conn, "CLIENT_READ_FAILED")
           ELSE Done(name, on_client_read_done_locked_ok(conn), {"client"},
                     phase)

on_server_read_done ==
    \E ok \in BOOLEAN :
        /\ ok => delivered["server"] < MaxReads
        /\ Complete("on_server_read_done", ok,
                    IF ok
                    THEN [conn EXCEPT !.server_read_buffer =
                                          @ \o <<delivered["server"] + 1>>]
                    ELSE conn)
        /\ delivered' = IF ok THEN [delivered EXCEPT !["server"] = @ + 1]
                        ELSE delivered
        /\ UNCHANGED request_reads

on_server_read_done_locked ==
    /\ Run("on_server_read_done")
    /\ request' = NoRequest
    /\ LET ok == Head(queue).ok
           name == "on_server_read_done_locked"
       IN  IF ~ok THEN Failed(name, ok, conn, "SERVER_READ_FAILED")
           ELSE Done(name, on_server_read_done_locked_ok(conn), {"server"},
                     phase)

\* Mutant: the callback clears client_is_writing itself, before the combiner
\* runs the handler.
on_client_write_done_clears_flag ==
    \E ok \in BOOLEAN :
        /\ Complete("on_client_write_done", ok,
                    [conn EXCEPT !.client_is_writing = FALSE])
        /\ UNCHANGED <<delivered, request_reads>>

on_client_write_done ==
    \E ok \in BOOLEAN :
        /\ Complete("on_client_write_done", ok, conn)
        /\ UNCHANGED <<delivered, request_reads>>

on_client_write_done_locked ==
    /\ Run("on_client_write_done")
    /\ request' = NoRequest
    /\ LET ok == Head(queue).ok
           name == "on_client_write_done_locked"
           c0 == [conn EXCEPT !.client_is_writing = FALSE]
       IN  IF ~ok THEN Failed(name, ok, c0, "CLIENT_WRITE_FAILED")
           ELSE Done(name, on_client_write_done_locked_ok(c0), {}, phase)

on_server_write_done ==
    \E ok \in BOOLEAN :
        /\ Complete("on_server_write_done", ok, conn)
        /\ UNCHANGED <<delivered, request_reads>>

on_server_write_done_locked ==
    /\ Run("on_server_write_done")
    /\ request' = NoRequest
    /\ LET ok == Head(queue).ok
           name == "on_server_write_done_locked"
           c0 == [conn EXCEPT !.server_is_writing = FALSE]
       IN  IF ~ok THEN Failed(name, ok, c0, "SERVER_WRITE_FAILED")
           ELSE Done(name, on_server_write_done_locked_ok(c0), {}, phase)

Next ==
    \/ on_accept
    \/ on_read_request_done
    \/ on_read_request_done_locked
    \/ on_server_connect_done
    \/ on_server_connect_done_locked
    \/ on_write_response_done
    \/ on_write_response_done_locked
    \/ on_client_read_done
    \/ on_client_read_done_locked
    \/ on_server_read_done
    \/ on_server_read_done_locked
    \/ on_client_write_done
    \/ on_client_write_done_locked
    \/ on_server_write_done
    \/ on_server_write_done_locked

Spec == Init /\ [][Next]_vars

----------------------------------------------------------------------------
(* The proxy: its thread, its users count and its destruction.  Here the   *)
(* connection is followed through its handshake and its release; its       *)
(* client sends a request without headers and its peers send no relay      *)
(* data: neither users nor the thread would see them.                      *)

\* Everything but proxy->users, the thread and the destroying caller.
connvars == <<conn, pending, queue, shutdown_calls, delivered, handed, readlog,
              failed, request_reads, phase, last, aborted, request>>

\* Mutant: the thread enters its loop body without taking a ref.
thread_main_ref_takes_none ==
    /\ ~aborted
    /\ thd = "top"
    /\ thd' = "polling"
    /\ UNCHANGED <<connvars, users, destroy_pc, libvars>>

\* Mutant: the thread cannot take a ref on a count that has reached zero.
thread_main_ref_non_zero ==
    /\ ~aborted
    /\ thd = "top"
    /\ users > 0
    /\ users' = users + 1
    /\ thd' = "polling"
    /\ UNCHANGED <<connvars, destroy_pc, libvars>>

\* thread_main, top of the loop body: gpr_ref(&proxy->users); the thread then
\* sits in grpc_pollset_work for up to a second.
thread_main_ref ==
    /\ ~aborted
    /\ thd = "top"
    /\ users' = users + 1
    /\ thd' = "polling"
    /\ UNCHANGED <<connvars, destroy_pc, libvars>>

\* Mutant: the loop's condition has lost its negation, so the thread leaves
\* the loop unless its unref took the count to zero.
thread_main_unref_inverted ==
    /\ ~aborted
    /\ thd = "polling"
    /\ users' = users - 1
    /\ thd' = IF users = 1 THEN "top" ELSE "exited"
    /\ UNCHANGED <<connvars, destroy_pc, libvars>>

\* thread_main, end of the loop body: while (!gpr_unref(&proxy->users)).
\* gpr_unref returns true when the count it decremented was 1.
thread_main_unref ==
    /\ ~aborted
    /\ thd = "polling"
    /\ users' = users - 1
    /\ thd' = IF users = 1 THEN "exited" ELSE "top"
    /\ UNCHANGED <<connvars, destroy_pc, libvars>>

\* The listener is in the proxy's pollset, which only thread_main works:
\* a connection is accepted while the thread is in grpc_pollset_work.
on_accept_in_poll ==
    /\ thd = "polling"
    /\ on_accept

\* Mutant: destroy shuts down the endpoints of the connection that is live.
grpc_end2end_http_proxy_destroy_signal_shuts_down ==
    /\ ~aborted
    /\ destroy_pc = "idle"
    /\ users' = users - 1
    /\ destroy_pc' = "joining"
    /\ shutdown_calls' =
          [s \in Sides |-> shutdown_calls[s] + IF conn.allocated THEN 1 ELSE 0]
    /\ UNCHANGED <<conn, pending, queue, delivered, handed, readlog, failed,
                   request_reads, phase, last, aborted, request, thd, libvars>>

\* grpc_end2end_http_proxy_destroy, its first statement:
\* gpr_unref(&proxy->users).
grpc_end2end_http_proxy_destroy_signal ==
    /\ ~aborted
    /\ destroy_pc = "idle"
    /\ users' = users - 1
    /\ destroy_pc' = "joining"
    /\ UNCHANGED <<connvars, thd, libvars>>

\* Mutant: destroy does not join the thread before it goes on.
grpc_end2end_http_proxy_destroy_join_no_wait ==
    /\ ~aborted
    /\ destroy_pc = "joining"
    /\ destroy_pc' = "returned"
    /\ UNCHANGED <<connvars, users, thd, libvars>>

\* grpc_end2end_http_proxy_destroy from proxy->thd.Join() to its return:
\* Join returns once thread_main has returned; the listeners are then shut
\* down and the proxy is deleted.
grpc_end2end_http_proxy_destroy_join ==
    /\ ~aborted
    /\ destroy_pc = "joining"
    /\ thd = "exited"
    /\ destroy_pc' = "returned"
    /\ UNCHANGED <<connvars, users, thd, libvars>>

\* The handler of a request that carries no header.
on_read_request_done_locked_bare == read_request_done_locked({<<>>})

\* A relay read completes with an error: the peer has closed, or the
\* endpoint has been shut down.
on_client_read_done_error ==
    /\ on_client_read_done
    /\ delivered' = delivered

on_server_read_done_error ==
    /\ on_server_read_done
    /\ delivered' = delivered

NextProxy ==
    \/ thread_main_ref
    \/ thread_main_unref
    \/ grpc_end2end_http_proxy_destroy_signal
    \/ grpc_end2end_http_proxy_destroy_join
    \/ on_accept_in_poll
    \/ on_read_request_done
    \/ on_read_request_done_locked_bare
    \/ on_server_connect_done
    \/ on_server_connect_done_locked
    \/ on_write_response_done
    \/ on_write_response_done_locked
    \/ on_client_read_done_error
    \/ on_client_read_done_locked
    \/ on_server_read_done_error
    \/ on_server_read_done_locked

SpecProxy == Init /\ [][NextProxy]_vars

\* The next statement of thread_main.
thread_main == thread_main_ref \/ thread_main_unref

\* The combiner runs the closure at the head of its queue.
CombinerRuns ==
    \/ on_read_request_done_locked_bare
    \/ on_server_connect_done_locked
    \/ on_write_response_done_locked
    \/ on_client_read_done_locked
    \/ on_server_read_done_locked

\* The threads run and the combiner runs the closures it was handed; the
\* peers of a connection owe nothing.
FairProxy ==
    /\ WF_vars(thread_main)
    /\ WF_vars(grpc_end2end_http_proxy_destroy_join)
    /\ WF_vars(CombinerRuns)

SpecProxyFair == SpecProxy /\ FairProxy

----------------------------------------------------------------------------
(* The connection under fair scheduling.  The request carries no header    *)
(* and each peer sends at most MaxFairReads reads' worth of data.          *)

on_client_read_done_few ==
    /\ on_client_read_done
    /\ delivered'["client"] <= MaxFairReads

on_server_read_done_few ==
    /\ on_server_read_done
    /\ delivered'["server"] <= MaxFairReads

NextRelay ==
    \/ on_accept
    \/ on_read_request_done
    \/ on_read_request_done_locked_bare
    \/ on_server_connect_done
    \/ on_server_connect_done_locked
    \/ on_write_response_done
    \/ on_write_response_done_locked
    \/ on_client_read_done_few
    \/ on_client_read_done_locked
    \/ on_server_read_done_few
    \/ on_server_read_done_locked
    \/ on_client_write_done
    \/ on_client_write_done_locked
    \/ on_server_write_done
    \/ on_server_write_done_locked

SpecRelay == Init /\ [][NextRelay]_vars

\* The combiner runs the closure at the head of its queue, whichever it is.
CombinerRunsAny ==
    \/ CombinerRuns
    \/ on_client_write_done_locked
    \/ on_server_write_done_locked

\* An operation registered with an endpoint that has been shut down
\* completes with an error.
ShutdownCompletes ==
    \E cl \in Closures :
        /\ EndpointIsShutDown(cl)
        /\ Complete(cl, FALSE, conn)
        /\ UNCHANGED <<delivered, request_reads>>

\* A write in flight completes, with or without an error.
WriteCompletes ==
    \/ on_write_response_done
    \/ on_client_write_done
    \/ on_server_write_done

\* The combiner runs what it was handed, a shut-down endpoint fails its
\* operations, and writes complete; a read on an open endpoint waits for
\* the peer, which owes nothing.
FairRelay ==
    /\ WF_vars(CombinerRunsAny)
    /\ WF_vars(ShutdownCompletes)
    /\ WF_vars(WriteCompletes)

SpecRelayFair == SpecRelay /\ FairRelay

----------------------------------------------------------------------------
(* Quantities the properties speak of *)

\* Closures of kind cl waiting in the combiner.
InQueue(cl) == Cardinality({i \in 1..Len(queue) : queue[i].closure = cl})

\* Operations of closure cl that were issued and whose handler has not run.
Outstanding(cl) == pending[cl] + InQueue(cl)

WriteClosures(s) ==
    IF s = "client" THEN {"on_write_response_done", "on_client_write_done"}
    ELSE {"on_server_write_done"}

RelayWriteClosure(s) ==
    IF s = "client" THEN "on_client_write_done" ELSE "on_server_write_done"

WritesOutstanding(s) ==
    IF s = "client"
    THEN Outstanding("on_write_response_done") + Outstanding("on_client_write_done")
    ELSE Outstanding("on_server_write_done")

AllOutstanding ==
    Outstanding("on_read_request_done") + Outstanding("on_server_connect_done")
    + Outstanding("on_write_response_done")
    + Outstanding("on_client_read_done") + Outstanding("on_client_write_done")
    + Outstanding("on_server_read_done") + Outstanding("on_server_write_done")

ReadsAndWritesOutstanding ==
    AllOutstanding - Outstanding("on_server_connect_done")

Other(s) == IF s = "client" THEN "server" ELSE "client"

WriteFailure(s) ==
    IF s = "client" THEN "CLIENT_WRITE_FAILED" ELSE "SERVER_WRITE_FAILED"

\* The relayed bytes handed to writes on side s: everything but the
\* handshake response, which is the first thing written to the client.
HandedRelay(s) ==
    IF s = "client"
    THEN SubSeq(handed[s], Len(Response200) + 1, Len(handed[s]))
    ELSE handed[s]

IsPrefix(a, b) == Len(a) <= Len(b) /\ SubSeq(b, 1, Len(a)) = a

\* The combiner runs the handler of closure cl with status ok in this step.
Runs(cl, ok) ==
    /\ queue # <<>>
    /\ Head(queue) = [closure |-> cl, ok |-> ok]
    /\ queue' = Tail(queue)

----------------------------------------------------------------------------
(* Properties *)

\* C1: while the connection is allocated, is_writing[side] holds iff exactly
\* one write is outstanding on that side's endpoint, and never more than one
\* write is outstanding on an endpoint (the handshake response included).
C1_SingleWriter ==
    conn.allocated =>
        \A s \in Sides :
            /\ IsWriting(conn, s) <=> (WritesOutstanding(s) = 1)
            /\ WritesOutstanding(s) <= 1

\* A read arrived on each side while the opposite write was in flight.
C1_Witness ==
    /\ phase = "RELAYING"
    /\ \A s \in Sides :
          IsWriting(conn, s) /\ DeferredBuffer(conn, s) # <<>>
                             /\ WritesOutstanding(s) = 1

\* C2: in each direction, while no write on the destination has failed, the
\* relayed bytes handed to writes on the destination are a prefix of the
\* bytes that successful reads on the source have returned to their handler,
\* and equal to them whenever the destination has no write in flight and
\* nothing deferred.
C2_RelayPrefix ==
    \A dst \in Sides :
        (phase \in {"RELAYING", "TEARDOWN"} /\ ~failed[WriteFailure(dst)]) =>
            /\ IsPrefix(HandedRelay(dst), readlog[Other(dst)])
            /\ (~IsWriting(conn, dst) /\ DeferredBuffer(conn, dst) = <<>>)
                  => HandedRelay(dst) = readlog[Other(dst)]

\* Both directions have relayed everything, through the deferred buffer.
C2_Witness ==
    /\ phase = "RELAYING"
    /\ last.handler = "on_server_write_done_locked"
    /\ \A dst \in Sides :
          /\ ~failed[WriteFailure(dst)]
          /\ ~IsWriting(conn, dst)
          /\ Len(HandedRelay(dst)) = MaxReads
          /\ HandedRelay(dst) = readlog[Other(dst)]

\* C3: in each direction the relayed bytes handed to writes are in arrival
\* order and none is handed twice, in every execution (bytes are numbered in
\* arrival order, so the handed sequence is strictly increasing).
C3_InOrderOnce ==
    \A dst \in Sides :
        \A i, j \in 1..Len(HandedRelay(dst)) :
            i < j => HandedRelay(dst)[i] < HandedRelay(dst)[j]

\* C4: deferred_buf[side] changes only by an append in a step that starts
\* and ends with is_writing[side], or by being moved whole into
\* write_buf[side] in the handler of a successful write completion on side.
C4_DeferredDiscipline ==
    [][\A s \in Sides :
          DeferredBuffer(conn', s) # DeferredBuffer(conn, s) =>
             \/ /\ IsWriting(conn, s) /\ IsWriting(conn', s)
                /\ Len(DeferredBuffer(conn', s)) > Len(DeferredBuffer(conn, s))
                /\ IsPrefix(DeferredBuffer(conn, s), DeferredBuffer(conn', s))
             \/ /\ Runs(RelayWriteClosure(s), TRUE)
                /\ DeferredBuffer(conn', s) = <<>>
                /\ WriteBuffer(conn', s) = DeferredBuffer(conn, s)
                /\ IsWriting(conn', s)]_vars

\* A deferred buffer was filled and then drained by a successful write.
C4_Witness ==
    /\ last.handler = "on_client_write_done_locked"
    /\ last.failure = "NONE"
    /\ conn.client_is_writing
    /\ conn.client_deferred_write_buffer = <<>>
    /\ Len(HandedRelay("client")) >= 2

\* C5: a side's shutdown flag never goes back to false, and
\* grpc_endpoint_shutdown is called at most once per side.
C5_ShutdownOnce ==
    [][\A s \in Sides :
          /\ Shutdown(conn, s) => Shutdown(conn', s)
          /\ shutdown_calls'[s] <= 1]_vars

\* Both sides were shut down, and failures kept arriving afterwards.
C5_Witness ==
    /\ \A s \in Sides : shutdown_calls[s] = 1 /\ Shutdown(conn, s)
    /\ failed["CLIENT_READ_FAILED"] /\ failed["SERVER_READ_FAILED"]
    /\ failed["CLIENT_WRITE_FAILED"] /\ failed["SERVER_WRITE_FAILED"]

\* C6 (as claimed): the refcount is 1 plus the number of outstanding read
\* and write completions.
C6_RefcountOnePlusOutstanding ==
    (conn.allocated /\ ~aborted) =>
        conn.refcount = 1 + ReadsAndWritesOutstanding

\* C6 (amended): the refcount is the number of outstanding read, write and
\* connect completions; no ref is held besides theirs.
C6_RefcountIsOutstanding ==
    ~aborted => conn.refcount = AllOutstanding

\* Two reads and two writes are outstanding.
C6_Witness ==
    /\ phase = "RELAYING"
    /\ conn.refcount = 4
    /\ \A s \in Sides : WritesOutstanding(s) = 1

\* C7: the handler of a successful handshake-response write leaves the
\* refcount at 2 with exactly one read outstanding on each endpoint and
\* nothing else, and has not released the connection on the way.
C7_HandshakeDoneRefs ==
    [][Runs("on_write_response_done", TRUE) =>
          /\ conn'.refcount = 2
          /\ conn'.allocated /\ conn'.destroy_count = 0
          /\ queue' = <<>>
          /\ pending' = [cl \in Closures |->
                            IF cl \in {"on_client_read_done",
                                       "on_server_read_done"}
                            THEN 1 ELSE 0]]_vars

\* The handshake has just completed.
C7_Witness ==
    /\ last.handler = "on_write_response_done_locked"
    /\ last.failure = "NONE"
    /\ phase = "RELAYING"
    /\ conn.refcount = 2
    /\ pending["on_client_read_done"] = 1 /\ pending["on_server_read_done"] = 1

\* C8: the connection is destroyed in exactly the steps that take the
\* refcount from 1 to 0, at most once, and the refcount does not change
\* once the connection has been destroyed.
C8_DestroyedAtZero ==
    [][/\ (conn'.destroy_count # conn.destroy_count)
              <=> (conn.refcount = 1 /\ conn'.refcount = 0)
       /\ conn'.destroy_count \in {conn.destroy_count, conn.destroy_count + 1}
       /\ conn'.destroy_count <= 1
       /\ conn'.allocated => conn'.destroy_count = 0 /\ conn'.refcount > 0
       /\ conn.destroy_count > 0 => conn'.refcount = conn.refcount]_vars

\* A connection that relayed has been destroyed.
C8_Witness ==
    /\ conn.destroy_count = 1 /\ conn.refcount = 0 /\ ~conn.allocated
    /\ readlog["client"] # <<>> /\ readlog["server"] # <<>>

\* C9: once the connection has been released no operation is outstanding on
\* it and no closure of it is waiting in the combiner.
C9_NothingOutstandingAtRelease ==
    conn.destroy_count > 0 =>
        /\ queue = <<>>
        /\ \A cl \in Closures : pending[cl] = 0

\* A connection was released after reads and writes failed on both sides.
C9_Witness ==
    /\ conn.destroy_count = 1
    /\ queue = <<>>
    /\ failed["CLIENT_READ_FAILED"] /\ failed["SERVER_READ_FAILED"]
    /\ failed["CLIENT_WRITE_FAILED"] /\ failed["SERVER_WRITE_FAILED"]

\* C10: right after the handler of a relay failure, the handler has
\* selected the client for shutdown exactly when the client's read and write
\* have both failed (this failure being the second of the two, in either
\* order) or this failure is the origin's read failing while the client is
\* not writing; and the origin symmetrically.  failed[] accumulates the
\* failures the handlers were called with.
C10_ShutdownPolicy ==
    last.failure \in failure_type \ {"SETUP_FAILED"} =>
        /\ last.shutdown_client <=>
              \/ /\ last.failure \in {"CLIENT_READ_FAILED", "CLIENT_WRITE_FAILED"}
                 /\ failed["CLIENT_READ_FAILED"] /\ failed["CLIENT_WRITE_FAILED"]
              \/ /\ last.failure = "SERVER_READ_FAILED"
                 /\ ~conn.client_is_writing
        /\ last.shutdown_server <=>
              \/ /\ last.failure \in {"SERVER_READ_FAILED", "SERVER_WRITE_FAILED"}
                 /\ failed["SERVER_READ_FAILED"] /\ failed["SERVER_WRITE_FAILED"]
              \/ /\ last.failure = "CLIENT_READ_FAILED"
                 /\ ~conn.server_is_writing

\* C11: while the connection is allocated, every relay failure a handler has
\* reported is recorded in the connection's flag of that name: a read that
\* completed with an error on a side has set that side's read_failed, a write
\* that completed with an error has set that side's write_failed, and right
\* after a failed write that side is no longer writing.
C11_FailureFlagsRecorded ==
    conn.allocated =>
        /\ failed["CLIENT_READ_FAILED"] => conn.client_read_failed
        /\ failed["CLIENT_WRITE_FAILED"] => conn.client_write_failed
        /\ failed["SERVER_READ_FAILED"] => conn.server_read_failed
        /\ failed["SERVER_WRITE_FAILED"] => conn.server_write_failed
        /\ last.failure = "CLIENT_WRITE_FAILED" => ~conn.client_is_writing
        /\ last.failure = "SERVER_WRITE_FAILED" => ~conn.server_is_writing

HandshakeClosures ==
    {"on_read_request_done", "on_server_connect_done", "on_write_response_done"}

\* The combiner runs a handshake handler and the handler ends in
\* proxy_connection_failed: its operation completed with an error, or the
\* request did not parse or was refused or its host did not resolve.
HandshakeFailureStep ==
    \E cl \in HandshakeClosures :
        \/ Runs(cl, FALSE)
        \/ Runs(cl, TRUE) /\ last'.failure = "SETUP_FAILED"

\* C12: a handshake handler that fails shuts the client endpoint down, shuts
\* the origin endpoint down when there is one (and calls it on no endpoint
\* otherwise), and drops the connection's only ref, so the connection is
\* released in that same step.
C12_HandshakeFailureTearsDown ==
    [][HandshakeFailureStep =>
          /\ shutdown_calls'["client"] = shutdown_calls["client"] + 1
          /\ conn'.client_shutdown
          /\ shutdown_calls'["server"] =
                shutdown_calls["server"] + IF conn.server_endpoint THEN 1 ELSE 0
          /\ conn.server_endpoint => conn'.server_shutdown
          /\ conn.refcount = 1 /\ conn'.refcount = 0
          /\ conn.allocated /\ ~conn'.allocated
          /\ conn'.destroy_count = conn.destroy_count + 1
          /\ phase' = "TEARDOWN"]_vars

\* The write of the 200 response failed: both endpoints were shut down and
\* the connection was released.
C12_Witness ==
    /\ last.handler = "on_write_response_done_locked"
    /\ last.failure = "SETUP_FAILED"
    /\ shutdown_calls = [s \in Sides |-> 1]
    /\ conn.destroy_count = 1

\* The positions of the client's byte stream at which the 200 response
\* starts.
ResponseStarts ==
    {i \in 1..Len(handed["client"]) :
        /\ i + Len(Response200) - 1 <= Len(handed["client"])
        /\ SubSeq(handed["client"], i, i + Len(Response200) - 1) = Response200}

\* C13 as stated: once the origin connect has succeeded, what has been
\* written to the client is the literal response, written once, and it is
\* 25 bytes long.
C13_Response25Bytes ==
    phase = "WRITING_200" =>
        /\ handed["client"] = Response200
        /\ ResponseStarts = {1}
        /\ Len(handed["client"]) = 25

\* C13: once the origin connect has succeeded, the bytes written to the
\* client are the literal "HTTP/1.0 200 connected\r\n\r\n" and nothing else
\* until the relay starts; the literal is 26 bytes long, and it occurs in the
\* client's byte stream once, at its start.
C13_Response26Bytes ==
    /\ phase = "WRITING_200" =>
          /\ handed["client"] = Response200
          /\ conn.client_write_buffer = Response200
          /\ Len(handed["client"]) = 26
    /\ handed["client"] # <<>> => ResponseStarts = {1}

\* The response is on its way to the client.
C13_Witness ==
    /\ phase = "WRITING_200"
    /\ pending["on_write_response_done"] = 1
    /\ handed["client"] = Response200

\* C14: bytes are handed to the client endpoint, and a write on it is
\* outstanding, only once the origin connect has completed successfully and
\* its handler has run; a connection torn down without an origin endpoint
\* has had nothing written to its client.
C14_NoClientWriteBeforeConnect ==
    /\ handed["client"] # <<>> =>
          /\ conn.server_endpoint
          /\ phase \in {"WRITING_200", "RELAYING", "TEARDOWN"}
    /\ phase \in {"NONE", "READING_REQUEST", "CONNECTING"} =>
          /\ handed["client"] = <<>>
          /\ WritesOutstanding("client") = 0
          /\ ~conn.client_is_writing
    /\ phase = "TEARDOWN" /\ ~conn.server_endpoint => handed["client"] = <<>>

\* The origin connect failed: the connection is gone and nothing was
\* written to the client.
C14_Witness ==
    /\ phase = "TEARDOWN"
    /\ last.handler = "on_server_connect_done_locked"
    /\ last.failure = "SETUP_FAILED"
    /\ handed["client"] = <<>>

\* The stages the handler that ran last entered.
Entered == {request.stages[i] : i \in 1..Len(request.stages)}

\* The request the handler examined passes the credential check.
RequestAuthOk ==
    request.auth.configured =>
        client_authenticated(request.hdrs, request.auth.cred)

\* C15: the handler enters the stages in the order validate method, auth
\* check, resolve, connect origin, each only after every earlier one
\* succeeded; the resolver is asked and the origin dialed only for a request
\* whose method is exactly CONNECT and whose credential check passed, the
\* dial only with the resolver's addresses; and the 200 response is written
\* only on a connection whose origin connect succeeded.
C15_StageOrder ==
    /\ IsPrefix(request.stages, StageOrder)
    /\ "auth_check" \in Entered => request.method = "CONNECT"
    /\ "resolve" \in Entered => request.method = "CONNECT" /\ RequestAuthOk
    /\ "resolve" \in Entered <=> request.res # ""
    /\ "connect_origin" \in Entered =>
          /\ request.res = "addresses"
          /\ request.method = "CONNECT" /\ RequestAuthOk
    /\ Outstanding("on_server_connect_done") > 0 =>
          /\ request.stages = StageOrder
          /\ phase = "CONNECTING"
    /\ request.method \notin {"", "CONNECT"} \/ ~RequestAuthOk =>
          /\ request.res = ""
          /\ Outstanding("on_server_connect_done") = 0
          /\ ~conn.server_endpoint
          /\ phase = "TEARDOWN"
    /\ phase \in {"WRITING_200", "RELAYING"} => conn.server_endpoint

\* A CONNECT request whose credential was refused: the resolver was not
\* asked and the connection is gone.
C15_Witness ==
    /\ request.method = "CONNECT"
    /\ request.auth.configured
    /\ ~RequestAuthOk
    /\ request.stages = SubSeq(StageOrder, 1, 2)
    /\ phase = "TEARDOWN"

\* The first header of hdrs whose key is exactly Proxy-Authorization exists
\* and its value is "Basic " followed by base64 text that decodes to cred.
FirstAuthHeaderCarries(hdrs, cred) ==
    \E i \in 1..Len(hdrs) :
        /\ hdrs[i].key = "Proxy-Authorization"
        /\ \A j \in 1..(i - 1) : hdrs[j].key # "Proxy-Authorization"
        /\ Len(hdrs[i].value) >= 6
        /\ SubSeq(hdrs[i].value, 1, 6) = BasicPrefix
        /\ grpc_base64_decode(SubSeq(hdrs[i].value, 7, Len(hdrs[i].value)))
              = cred

\* C16: when the handler reaches the credential check with a credential
\* configured, it goes on to resolve the host exactly when the first
\* Proxy-Authorization header of the request carries that credential (a
\* request without such a header never does); otherwise the client endpoint
\* has been shut down and the connection released.  Without a configured
\* credential the handler always goes on.
C16_AuthCheck ==
    "auth_check" \in Entered =>
        /\ request.auth.configured =>
              ("resolve" \in Entered <=>
                  FirstAuthHeaderCarries(request.hdrs, request.auth.cred))
        /\ ~request.auth.configured => "resolve" \in Entered
        /\ "resolve" \notin Entered =>
              /\ last.failure = "SETUP_FAILED"
              /\ shutdown_calls["client"] = 1
              /\ ~conn.allocated /\ conn.destroy_count = 1

\* A request whose first Proxy-Authorization header carries another
\* credential and whose second carries the right one was refused.
C16_Witness ==
    /\ request.auth.configured
    /\ Len(request.hdrs) = 2
    /\ request.hdrs[1].key = "Proxy-Authorization"
    /\ ~proxy_auth_header_matches(request.hdrs[1].value, ExpectedCred)
    /\ FirstAuthHeaderCarries(Tail(request.hdrs), ExpectedCred)
    /\ request.result = "failed"
    /\ phase = "TEARDOWN"

C18_NothingLeftAfterDestroy ==
    destroy_pc = "returned" =>
        /\ thd = "exited"
        /\ users = 0
        /\ ~conn.allocated
        /\ phase # "NONE" => conn.destroy_count = 1 /\ phase = "TEARDOWN"
        /\ AllOutstanding = 0

\* destroy returned after the proxy had accepted a connection and relayed
\* for it.
C18_Witness ==
    /\ destroy_pc = "returned"
    /\ conn.destroy_count = 1
    /\ conn.server_endpoint
    /\ last.handler \in {"on_client_read_done_locked",
                         "on_server_read_done_locked"}

DestroyStep == destroy_pc' # destroy_pc

CompletionStep(cl) ==
    /\ pending'[cl] = pending[cl] - 1
    /\ queue' = Append(queue, queue'[Len(queue')])
    /\ queue'[Len(queue')].closure = cl

\* The combiner runs one handler in this step.
HandlerStep == queue # <<>> /\ queue' = Tail(queue)

\* The connection but for what the endpoints and the connector store in it
\* (the read buffers they fill, server_endpoint) and its closures.
FlagsBuffersRefcount(c) ==
    [c EXCEPT !.client_read_buffer = <<>>, !.server_read_buffer = <<>>,
              !.server_endpoint = FALSE,
              !.closure_cb = ZeroConn.closure_cb]

ReadFailure(s) ==
    IF s = "client" THEN "CLIENT_READ_FAILED" ELSE "SERVER_READ_FAILED"

\* C22 as stated: once the read of a side has failed during the relay, the
\* opposite endpoint is eventually shut down by the proxy, unless its own
\* read has failed too, and the connection is eventually released, whatever
\* the opposite peer does.
C22_ReadFailureReleases ==
    \A s \in Sides :
        failed[ReadFailure(s)] ~>
            /\ shutdown_calls[Other(s)] > 0 \/ failed[ReadFailure(Other(s))]
            /\ conn.destroy_count = 1

\* C22: when the read of a side fails while no write is in flight on the
\* opposite endpoint, the handler shuts the opposite endpoint down in that
\* step and the connection is eventually released without the opposite peer
\* doing anything.  During the relay the proxy shuts an endpoint down in no
\* other step: if a write was in flight on the opposite endpoint when the
\* read failed, the proxy never shuts that endpoint down.
C22_ReadFailureWithIdleWriter ==
    /\ \A s \in Sides :
          (last.failure = ReadFailure(s) /\ ~IsWriting(conn, Other(s))) ~>
              (conn.destroy_count = 1)
    /\ [][\A s \in Sides :
             /\ last'.failure = ReadFailure(s) /\ last' # last
                /\ ~IsWriting(conn, Other(s))
                   => shutdown_calls'[Other(s)] = 1
             /\ phase = "RELAYING"
                /\ shutdown_calls'[Other(s)] # shutdown_calls[Other(s)]
                   => /\ HandlerStep
                      /\ last'.failure \in {ReadFailure(s), "SETUP_FAILED"}
                      /\ ~IsWriting(conn, Other(s))]_vars

\* The client's read failed while a write to the origin was in flight; the
\* write has since completed and the origin endpoint is still open, its read
\* pending.
C22_Witness ==
    /\ failed["CLIENT_READ_FAILED"]
    /\ ~conn.server_is_writing
    /\ Outstanding("on_server_write_done") = 0
    /\ handed["server"] # <<>>
    /\ shutdown_calls["server"] = 0
    /\ pending["on_server_read_done"] = 1
    /\ conn.allocated

----------------------------------------------------------------------------
(* C23: the write buffers of a side that is not writing *)

\* C23: while the connection is allocated, a side whose is_writing flag is
\* false has an empty write buffer and an empty deferred write buffer,
\* also after a write on that side completed with an error.
C23_IdleSideBuffersEmpty ==
    conn.allocated =>
        \A s \in Sides :
            ~IsWriting(conn, s) =>
                /\ WriteBuffer(conn, s) = <<>>
                /\ DeferredBuffer(conn, s) = <<>>

----------------------------------------------------------------------------
(* C24: no read on a closed side *)

ReadClosure(s) ==
    IF s = "client" THEN "on_client_read_done" ELSE "on_server_read_done"

\* A step that calls grpc_endpoint_read on the endpoint of side s.
ReadIssued(s) == pending'[ReadClosure(s)] = pending[ReadClosure(s)] + 1

\* C24: once the read of a side has completed with an error, or the
\* shutdown flag of the side is set, no step issues a read on the side's
\* endpoint.
C24_NoReadOnClosedSide ==
    [][\A s \in Sides :
          phase = "RELAYING" /\ (failed[ReadFailure(s)] \/ Shutdown(conn, s))
              => ~ReadIssued(s)]_vars

----------------------------------------------------------------------------
(* C25: an endpoint with a write in flight is not shut down *)

\* C25: during the relay no step shuts down an endpoint whose is_writing
\* flag is set.  The step in which the read of one side fails while the
\* other side is writing leaves the other side as it is: its endpoint is
\* not shut down, and its write in flight and its deferred bytes are kept;
\* when that write completes successfully afterwards, the deferred bytes
\* are handed to the endpoint.
C25_NoShutdownWhileWriting ==
    [][phase = "RELAYING" =>
          \A s \in Sides :
              /\ shutdown_calls'[s] # shutdown_calls[s] => ~IsWriting(conn, s)
              /\ Runs(ReadClosure(Other(s)), FALSE) /\ IsWriting(conn, s) =>
                    /\ shutdown_calls'[s] = shutdown_calls[s]
                    /\ Shutdown(conn', s) = Shutdown(conn, s)
                    /\ conn'.allocated /\ IsWriting(conn', s)
                    /\ WriteBuffer(conn', s) = WriteBuffer(conn, s)
                    /\ DeferredBuffer(conn', s) = DeferredBuffer(conn, s)
                    /\ Outstanding(RelayWriteClosure(s))' = 1
                    /\ handed'[s] = handed[s]
              /\ Runs(RelayWriteClosure(s), TRUE)
                    /\ failed[ReadFailure(Other(s))] =>
                    handed'[s] = handed[s] \o DeferredBuffer(conn, s)]_vars

\* The server's read has just failed while the client was writing with
\* bytes deferred behind the write.
C25_Witness ==
    /\ last.failure = "SERVER_READ_FAILED"
    /\ conn.client_is_writing
    /\ conn.client_deferred_write_buffer # <<>>
    /\ shutdown_calls["client"] = 0

\* The bytes deferred behind the client's write when the server's read
\* failed have been handed to the client endpoint.
C25_WitnessDrained ==
    /\ failed["SERVER_READ_FAILED"]
    /\ last.handler = "on_client_write_done_locked"
    /\ conn.client_is_writing
    /\ Len(HandedRelay("client")) = 2
    /\ shutdown_calls["client"] = 0

----------------------------------------------------------------------------
(* C26: what a successful write completion changes *)

\* The buffers and flags of side s.
SideState(c, s) ==
    <<WriteBuffer(c, s), DeferredBuffer(c, s), ReadBuffer(c, s),
      IsWriting(c, s), Shutdown(c, s)>>

\* C26: the handler of a successful relay write on side s either moves the
\* whole deferred buffer into the write buffer, sets is_writing, issues one
\* write and leaves the refcount alone (deferred buffer non-empty), or
\* leaves is_writing false, issues no write and drops one ref (deferred
\* buffer empty); the buffers and flags of the other side are unchanged.
C26_WriteCompletionFrame ==
    [][\A s \in Sides :
          Runs(RelayWriteClosure(s), TRUE) =>
              /\ SideState(conn', Other(s)) = SideState(conn, Other(s))
              /\ ReadBuffer(conn', s) = ReadBuffer(conn, s)
              /\ Shutdown(conn', s) = Shutdown(conn, s)
              /\ shutdown_calls' = shutdown_calls
              /\ DeferredBuffer(conn', s) = <<>>
              /\ IF DeferredBuffer(conn, s) # <<>>
                 THEN /\ WriteBuffer(conn', s) = DeferredBuffer(conn, s)
                      /\ IsWriting(conn', s)
                      /\ pending'[RelayWriteClosure(s)]
                            = pending[RelayWriteClosure(s)] + 1
                      /\ handed'[s] = handed[s] \o DeferredBuffer(conn, s)
                      /\ conn'.refcount = conn.refcount
                 ELSE /\ WriteBuffer(conn', s) = <<>>
                      /\ ~IsWriting(conn', s)
                      /\ pending' = pending
                      /\ handed' = handed
                      /\ conn'.refcount = conn.refcount - 1]_vars

\* A successful client write has just completed with bytes deferred behind
\* it, and a second write carries them.
C26_Witness ==
    /\ last.handler = "on_client_write_done_locked"
    /\ last.ok
    /\ conn.client_is_writing
    /\ conn.client_write_buffer # <<>>
    /\ pending["on_client_write_done"] = 1

----------------------------------------------------------------------------
(* C27: the refs of the relay's writes *)

\* A step that calls grpc_endpoint_write on the endpoint of side s.
WriteIssued(s) ==
    pending'[RelayWriteClosure(s)] = pending[RelayWriteClosure(s)] + 1

\* What a successful read handler of side s does to the refcount: one more
\* for the write it posts on the other side, nothing when it defers.
ReadHandlerRefs(s) ==
    Runs(ReadClosure(s), TRUE) =>
        conn'.refcount = conn.refcount + IF WriteIssued(Other(s)) THEN 1 ELSE 0

\* C27 as stated: a read handler that posts a write takes one ref, and
\* every handler of a completed relay write, successful or failed, drops
\* one.
C27_EveryWriteCompletionUnrefs ==
    [][\A s \in Sides :
          /\ ReadHandlerRefs(s)
          /\ \A ok \in BOOLEAN :
                Runs(RelayWriteClosure(s), ok) =>
                    conn'.refcount = conn.refcount - 1]_vars

\* C27: a read handler that posts a write takes one ref; the handler of a
\* completed relay write drops one ref unless it posts the write of the
\* deferred bytes, which reuses the ref; a failed write always drops one.
C27_WriteChainHoldsOneRef ==
    [][\A s \in Sides :
          /\ ReadHandlerRefs(s)
          /\ \A ok \in BOOLEAN :
                Runs(RelayWriteClosure(s), ok) =>
                    /\ conn'.refcount
                          = conn.refcount - IF WriteIssued(s) THEN 0 ELSE 1
                    /\ WriteIssued(s) <=> ok /\ DeferredBuffer(conn, s) # <<>>]_vars

\* The write of the bytes deferred behind a server write has just been
\* posted by the handler of that write.
C27_Witness ==
    /\ last.handler = "on_server_write_done_locked"
    /\ last.ok
    /\ conn.server_is_writing
    /\ pending["on_server_write_done"] = 1
    /\ Len(handed["server"]) = 2

----------------------------------------------------------------------------
(* C28: one read outstanding per side *)

\* C28: during the relay a side whose read has not failed has exactly one
\* read outstanding.  The handler of a successful read re-issues the read
\* in its step, whether it deferred the bytes or posted a write on the
\* other side, and the re-issued read takes no ref: the refcount changes
\* by the ref of the write posted, if any.
C28_OneReadOutstanding ==
    /\ [](phase = "RELAYING" =>
            \A s \in Sides :
                ~failed[ReadFailure(s)] => Outstanding(ReadClosure(s)) = 1)
    /\ [][\A s \in Sides :
              Runs(ReadClosure(s), TRUE) =>
                  /\ ReadIssued(s)
                  /\ Outstanding(ReadClosure(s))' = Outstanding(ReadClosure(s))
                  /\ IF IsWriting(conn, Other(s))
                     THEN /\ ~WriteIssued(Other(s))
                          /\ conn'.refcount = conn.refcount
                     ELSE /\ WriteIssued(Other(s))
                          /\ conn'.refcount = conn.refcount + 1]_vars

\* The client's read has just been re-issued by a handler that deferred
\* the bytes behind the server's write.
C28_Witness ==
    /\ last.handler = "on_client_read_done_locked"
    /\ last.ok
    /\ conn.server_deferred_write_buffer # <<>>
    /\ pending["on_client_read_done"] = 1
    /\ ~failed["CLIENT_READ_FAILED"]

----------------------------------------------------------------------------
(* C29: the response precedes the relay *)

\* The relay has left a trace: a read posted on an endpoint, bytes returned
\* by a read, or bytes handed to the client endpoint after the response.
RelayStarted ==
    \/ \E s \in Sides :
          \/ Outstanding(ReadClosure(s)) > 0
          \/ readlog[s] # <<>>
          \/ delivered[s] > 0
    \/ Len(handed["client"]) > Len(Response200)

\* While the write of the response is outstanding the relay has not
\* started and the response is all the client endpoint was handed.
ResponseFirst ==
    /\ Outstanding("on_write_response_done") > 0 =>
          /\ ~RelayStarted
          /\ handed["client"] = Response200
    /\ RelayStarted =>
          /\ Outstanding("on_write_response_done") = 0
          /\ IsPrefix(Response200, handed["client"])
    /\ handed["client"] # <<>> => IsPrefix(Response200, handed["client"])

\* A step that posts a relay read or hands bytes to the client endpoint.
RelayAfterResponse ==
    /\ \A s \in Sides :
          ReadIssued(s) =>
              \/ Runs("on_write_response_done", TRUE) /\ ~RelayStarted
              \/ Runs(ReadClosure(s), TRUE)
    /\ handed'["client"] # handed["client"] =>
          \/ /\ Runs("on_server_connect_done", TRUE)
             /\ handed["client"] = <<>>
             /\ handed'["client"] = Response200
          \/ /\ \/ Runs("on_server_read_done", TRUE)
                \/ Runs("on_client_write_done", TRUE)
             /\ Outstanding("on_write_response_done") = 0
             /\ IsPrefix(Response200, handed["client"])
             /\ IsPrefix(handed["client"], handed'["client"])

\* C29: the first relay reads are posted by the handler of the successful
\* write of the response, and every later one by the handler of a
\* successful relay read; until then nothing but the response is handed to
\* the client endpoint.  The bytes handed to the client endpoint are the
\* response, whole and first, followed by nothing but bytes relayed by the
\* handlers of the relay.
C29_ResponseBeforeRelay == []ResponseFirst /\ [][RelayAfterResponse]_vars

\* The first byte of the origin has just been handed to the client
\* endpoint, behind the response.
C29_Witness ==
    /\ last.handler = "on_server_read_done_locked"
    /\ Len(handed["client"]) = Len(Response200) + 1
    /\ IsPrefix(Response200, handed["client"])
    /\ Outstanding("on_write_response_done") = 0

----------------------------------------------------------------------------
(* C30: the refcount counts the operations outstanding *)

HandshakeOutstanding ==
    Outstanding("on_read_request_done") + Outstanding("on_server_connect_done")
    + Outstanding("on_write_response_done")

RelayOutstanding ==
    Outstanding("on_client_read_done") + Outstanding("on_server_read_done")
    + Outstanding("on_client_write_done") + Outstanding("on_server_write_done")

\* C30: while the process runs, the refcount is the number of operations
\* outstanding on the connection, an operation being outstanding from its
\* posting until its handler has run and a chain of back-to-back writes on
\* a side counting once.  During the handshake exactly one operation is
\* outstanding and the refcount is 1; during the relay at most one read and
\* one write per side are outstanding and the refcount is between 0 and 4,
\* 0 being the released connection.
C30_RefcountCountsOperations ==
    ~aborted =>
        /\ conn.refcount = HandshakeOutstanding + RelayOutstanding
        /\ \A cl \in Closures : Outstanding(cl) <= 1
        /\ HandshakeOutstanding > 0 =>
              /\ conn.refcount = 1
              /\ RelayOutstanding = 0
        /\ phase \in {"READING_REQUEST", "CONNECTING", "WRITING_200"} =>
              conn.refcount = 1
        /\ phase = "RELAYING" => conn.refcount \in 1..4
        /\ conn.refcount \in 0..4
        /\ conn.refcount = 0 <=> ~conn.allocated

\* A relay write has completed and its handler has not run yet: it still
\* counts, with the two reads.
C30_Witness ==
    /\ phase = "RELAYING"
    /\ conn.refcount = 3
    /\ InQueue("on_client_write_done") = 1
    /\ pending["on_client_write_done"] = 0
    /\ Outstanding("on_client_read_done") = 1
    /\ Outstanding("on_server_read_done") = 1

----------------------------------------------------------------------------
(* C31: what proxy->users counts *)

\* The refs on the proxy: the creator's until destroy drops it, one per
\* allocated connection, the thread's while it is inside its loop body.
UsersHeld ==
    (IF destroy_pc = "idle" THEN 1 ELSE 0)
    + (IF conn.allocated THEN 1 ELSE 0)
    + (IF thd = "polling" THEN 1 ELSE 0)

\* What a step does to proxy->users, and when the thread leaves its loop.
UsersStep ==
    /\ conn'.allocated /\ ~conn.allocated => users' = users + 1
    /\ ~conn'.allocated /\ conn.allocated => users' = users - 1
    /\ destroy_pc = "idle" /\ destroy_pc' # "idle" => users' = users - 1
    /\ destroy_pc # "idle" => destroy_pc' # "idle"
    /\ thd' = "exited" /\ thd # "exited" =>
          /\ thd = "polling"
          /\ users = 1 /\ users' = 0
          /\ destroy_pc # "idle"
          /\ ~conn.allocated

\* C31: proxy->users is one for the proxy not yet destroyed, plus one per
\* allocated connection, plus one while the thread is inside its loop body;
\* on_accept adds one per connection, the release of a connection takes one
\* off, destroy takes one off, once; the thread leaves its loop only by the
\* unref at the loop's end that takes the count to zero, hence after
\* destroy was called and with no connection allocated.
C31_UsersCount == [](users = UsersHeld) /\ [][UsersStep]_vars

\* All three kinds of ref are held at once.
C31_Witness ==
    /\ users = 3
    /\ destroy_pc = "idle"
    /\ conn.allocated
    /\ thd = "polling"

----------------------------------------------------------------------------
(* C32: the thread exits once nothing holds the proxy *)

\* destroy has dropped its ref and no connection is or will be allocated:
\* the connection has been released, or none was accepted and none will be.
ProxyUnheld ==
    /\ destroy_pc # "idle"
    /\ ~conn.allocated
    /\ phase = "TEARDOWN"

\* C32: once destroy has dropped its ref and the connection has been
\* released, the thread leaves its loop, wherever it was in its loop when
\* the count last changed: also when the count reached zero while the
\* thread was between two iterations, in which case it takes its ref on the
\* zero count, polls once more and exits at the unref.  The same holds for
\* a proxy that never accepts a connection.
C32_SupervisorExitsWhenUnheld ==
    /\ ProxyUnheld ~> (thd = "exited")
    /\ (ProxyUnheld /\ users = 0 /\ thd = "top") ~> (thd = "exited")
    /\ <>[](destroy_pc # "idle" /\ phase = "NONE") => <>(thd = "exited")
    /\ [](thd = "exited" => users = 0)

\* The count has reached zero, by the release of the connection or by
\* destroy, while the thread is between two iterations of its loop.
C32_Witness ==
    /\ ProxyUnheld
    /\ users = 0
    /\ thd = "top"
    /\ conn.destroy_count = 1

----------------------------------------------------------------------------
(* The chttp2 PING frame: grpc_chttp2_ping_create and the ping parser.     *)
(* A uint64_t is held as four 16-bit limbs, most significant first.        *)

\* Everything of the proxy but the flag of a terminated process.
proxyvars == <<conn, users, pending, queue, shutdown_calls, delivered, handed,
               readlog, failed, request_reads, phase, last, request, thd,
               destroy_pc>>

GRPC_CHTTP2_FRAME_PING == 6

\* The opaque values the peer sends: 0x0102030405060708 and
\* 0xffff8000000000ff.
PingValues ==
    {<<258, 772, 1286, 1800>>,
     <<65535, 32768, 0, 255>>}

\* a | b on unsigned integers.
RECURSIVE BitOr(_, _)
BitOr(a, b) ==
    IF a = 0 THEN b
    ELSE IF b = 0 THEN a
    ELSE (IF a % 2 = 1 \/ b % 2 = 1 THEN 1 ELSE 0)
         + 2 * BitOr(a \div 2, b \div 2)

\* a & b on unsigned integers.
RECURSIVE BitAnd(_, _)
BitAnd(a, b) ==
    IF a = 0 \/ b = 0 THEN 0
    ELSE (IF a % 2 = 1 /\ b % 2 = 1 THEN 1 ELSE 0)
         + 2 * BitAnd(a \div 2, b \div 2)

\* static_cast<uint8_t>(v >> (56 - 8 * i)), for i in 0..7.
ShiftedByte(v, i) ==
    (v[(i \div 2) + 1] \div (IF i % 2 = 0 THEN 256 ELSE 1)) % 256

\* v | (static_cast<uint64_t>(b) << (56 - 8 * i)), for i in 0..7.
OrShifted(v, b, i) ==
    [v EXCEPT ![(i \div 2) + 1] =
        BitOr(@, b * (IF i % 2 = 0 THEN 256 ELSE 1))]

\* Mutant: the opaque value is written least significant byte first.
grpc_chttp2_ping_create_little_endian(ack, opaque_8bytes) ==
    <<0, 0, 8, GRPC_CHTTP2_FRAME_PING, IF ack THEN 1 ELSE 0, 0, 0, 0, 0>>
    \o [i \in 1..8 |-> ShiftedByte(opaque_8bytes, 8 - i)]

\* grpc_chttp2_ping_create: the 9 bytes of the frame header and the 8 of
\* the payload.
grpc_chttp2_ping_create(ack, opaque_8bytes) ==
    <<0, 0, 8, GRPC_CHTTP2_FRAME_PING, IF ack THEN 1 ELSE 0, 0, 0, 0, 0>>
    \o [i \in 1..8 |-> ShiftedByte(opaque_8bytes, i - 1)]

\* The frames a peer sends: the ones grpc_chttp2_ping_create builds, and
\* PING frames with another length or with other flag bits.
PingFrames ==
    LET made == {grpc_chttp2_ping_create(ack, v) :
                    ack \in BOOLEAN, v \in PingValues}
        any == grpc_chttp2_ping_create(FALSE, <<258, 772, 1286, 1800>>)
    IN  made \cup {[any EXCEPT ![3] = 7], [any EXCEPT ![3] = 9],
                   [any EXCEPT ![5] = 2], [any EXCEPT ![5] = 3],
                   [any EXCEPT ![5] = 129]}

\* What the transport's frame-header parser takes from the 9 header bytes.
FrameLength(f) == f[1] * 65536 + f[2] * 256 + f[3]
FrameFlags(f) == f[5]
FramePayload(f) == SubSeq(f, 10, Len(f))

\* grpc_chttp2_ping_parser_begin_frame: whether it returns an error.
begin_frame_fails(length, flags) == BitAnd(flags, 254) # 0 \/ length # 8

\* grpc_chttp2_ping_parser_parse, its loop: the parser after the slice.
RECURSIVE parse_bytes(_, _)
parse_bytes(p, slice) ==
    IF p.byte # 8 /\ slice # <<>>
    THEN parse_bytes(
            [p EXCEPT !.opaque_8bytes = OrShifted(@, Head(slice), p.byte),
                      !.byte = @ + 1],
            Tail(slice))
    ELSE p

\* std::max(capacity * 3 / 2, size_t(3))
grown_capacity(capacity) ==
    IF (capacity * 3) \div 2 > 3 THEN (capacity * 3) \div 2 ELSE 3

\* grpc_chttp2_ping_parser_parse, lines 119-127: the ack is queued and a
\* write is initiated.
queue_ping_ack(tr, opaque) ==
    LET cap == IF tr.ping_ack_count = tr.ping_ack_capacity
               THEN grown_capacity(tr.ping_ack_capacity)
               ELSE tr.ping_ack_capacity
    IN  [tr EXCEPT !.ping_ack_capacity = cap,
                   !.num_pending_induced_frames = @ + 1,
                   !.ping_acks = Append(@, opaque),
                   !.ping_ack_count = @ + 1,
                   !.writes = @ + 1]

\* Mutant: an ACK is answered like a ping.
ping_received_queues_always(tr, p, early, disabled) ==
    LET t0 == [tr EXCEPT !.completed = @ + 1]
    IN  IF disabled THEN t0 ELSE queue_ping_ack(t0, p.opaque_8bytes)

\* grpc_chttp2_ping_parser_parse, lines 94-129: the transport after a
\* complete frame.  early: next_allowed_ping > now.
ping_received(tr, p, early, disabled) ==
    LET t0 == [tr EXCEPT !.completed = @ + 1]
    IN  IF p.is_ack # 0
        THEN [t0 EXCEPT !.acked = Append(@, p.opaque_8bytes)]
        ELSE LET t1 == IF ~t0.is_client /\ early
                       THEN [t0 EXCEPT !.ping_strikes = @ + 1] ELSE t0
             IN  IF disabled THEN t1
                 ELSE queue_ping_ack(t1, p.opaque_8bytes)

\* A transport is created, for a client or for a server.
ping_transport_create ==
    /\ ~aborted
    /\ ~t.created
    /\ \E is_client \in BOOLEAN :
          t' = [t EXCEPT !.created = TRUE, !.is_client = is_client]
    /\ UNCHANGED <<proxyvars, aborted, parser, g_disable_ping_ack, wire, chanvars>>

\* grpc_set_disable_ping_ack, called between two frames.
grpc_set_disable_ping_ack ==
    /\ ~aborted
    /\ t.created
    /\ ~wire.open
    /\ \E disable_ping_ack \in BOOLEAN :
          /\ disable_ping_ack # g_disable_ping_ack
          /\ g_disable_ping_ack' = disable_ping_ack
    /\ UNCHANGED <<proxyvars, aborted, parser, t, wire, chanvars>>

\* The header of a PING frame has arrived:
\* grpc_chttp2_ping_parser_begin_frame.  An error closes the transport.
grpc_chttp2_ping_parser_begin_frame ==
    /\ ~aborted
    /\ t.created
    /\ ~t.closed
    /\ ~wire.open
    /\ t.frames < MaxFrames
    /\ \E f \in PingFrames :
          IF begin_frame_fails(FrameLength(f), FrameFlags(f))
          THEN /\ wire' = [open |-> FALSE, frame |-> f, pos |-> 0,
                           empty_seen |-> FALSE]
               /\ t' = [t EXCEPT !.closed = TRUE]
               /\ parser' = parser
          ELSE /\ wire' = [open |-> TRUE, frame |-> f, pos |-> 0,
                           empty_seen |-> FALSE]
               /\ t' = [t EXCEPT !.frames = @ + 1]
               /\ parser' = [byte |-> 0, is_ack |-> FrameFlags(f),
                             opaque_8bytes |-> <<0, 0, 0, 0>>]
    /\ UNCHANGED <<proxyvars, aborted, g_disable_ping_ack, chanvars>>

\* A slice of the payload arrives: grpc_chttp2_ping_parser_parse.  The
\* slice holds the next n bytes, n >= 0; is_last is set on the last slice
\* of the frame.
grpc_chttp2_ping_parser_parse ==
    /\ ~aborted
    /\ wire.open
    /\ \E n \in 0..(8 - wire.pos), is_last \in BOOLEAN, early \in BOOLEAN :
          /\ is_last => wire.pos + n = 8
          /\ early => (wire.pos + n = 8 /\ is_last /\ ~t.is_client
                       /\ parser.is_ack = 0)
          /\ LET slice == SubSeq(FramePayload(wire.frame),
                                 wire.pos + 1, wire.pos + n)
                 p == parse_bytes(parser, slice)
             IN  /\ parser' = p
                 /\ wire' = [wire EXCEPT !.pos = @ + n, !.open = ~is_last,
                                         !.empty_seen = @ \/ n = 0]
                 /\ IF p.byte = 8
                    THEN IF ~is_last
                         THEN aborted' = TRUE /\ t' = t
                         ELSE /\ aborted' = aborted
                              /\ t' = ping_received(t, p, early,
                                                    g_disable_ping_ack)
                    ELSE aborted' = aborted /\ t' = t
    /\ UNCHANGED <<proxyvars, g_disable_ping_ack, chanvars>>

NextPing ==
    \/ ping_transport_create
    \/ grpc_set_disable_ping_ack
    \/ grpc_chttp2_ping_parser_begin_frame
    \/ grpc_chttp2_ping_parser_parse

SpecPing == Init /\ [][NextPing]_vars

----------------------------------------------------------------------------
(* C33: the parser acts once per PING frame *)

\* The opaque value the sender of frame f put in it.
SentOpaque(f) ==
    CHOOSE v \in PingValues :
        FramePayload(f) = FramePayload(grpc_chttp2_ping_create(FALSE, v))

\* What the transport shows of the pings it has to acknowledge.
PendingAcks(tr) ==
    <<tr.ping_acks, tr.ping_ack_count, tr.num_pending_induced_frames,
      tr.writes>>

PingParseStep ==
    wire.open /\ wire' # wire =>
        IF wire'.open \/ aborted'
        THEN /\ t' = t
             /\ aborted' <=> wire'.pos = 8
        ELSE /\ parser'.byte = 8
             /\ t'.completed = t.completed + 1
             /\ IF parser.is_ack # 0
                THEN /\ t'.acked = Append(t.acked, SentOpaque(wire.frame))
                     /\ PendingAcks(t') = PendingAcks(t)
                ELSE /\ t'.acked = t.acked
                     /\ IF g_disable_ping_ack
                        THEN PendingAcks(t') = PendingAcks(t)
                        ELSE PendingAcks(t') =
                               <<Append(t.ping_acks, SentOpaque(wire.frame)),
                                 t.ping_ack_count + 1,
                                 t.num_pending_induced_frames + 1,
                                 t.writes + 1>>

\* The pending-ack array holds what it counts, within its capacity.
PendingAcksFit ==
    /\ t.ping_ack_count = Len(t.ping_acks)
    /\ t.ping_ack_count <= t.ping_ack_capacity
    /\ t.completed \in {t.frames, t.frames - 1}
    /\ aborted => t.completed = t.frames - 1 /\ wire.pos = 8

----------------------------------------------------------------------------
(* C34: the opaque value survives the wire *)

\* The value of eight bytes read most significant byte first.
BigEndian(bytes) == [k \in 1..4 |-> bytes[2 * k - 1] * 256 + bytes[2 * k]]

\* The parser holds the bytes it has taken, each at its place, and zeroes
\* where the bytes to come go; with all eight it holds the value sent.
OpaqueAccumulated ==
    /\ parser.byte \in 0..8
    /\ wire.open \/ wire.pos > 0 =>
          /\ parser.byte = wire.pos
          /\ \A i \in 0..7 :
                ShiftedByte(parser.opaque_8bytes, i) =
                    IF i < parser.byte
                    THEN FramePayload(wire.frame)[i + 1] ELSE 0
    /\ wire.pos = 8 =>
          /\ parser.byte = 8
          /\ parser.opaque_8bytes = BigEndian(FramePayload(wire.frame))
          /\ parser.opaque_8bytes = SentOpaque(wire.frame)
          /\ \E ack \in BOOLEAN :
                wire.frame =
                    grpc_chttp2_ping_create(ack, parser.opaque_8bytes)

\* A step of grpc_chttp2_ping_parser_begin_frame on the header of frame
\* wire'.frame.
BeginFrameStep ==
    ~wire.open /\ wire' # wire =>
        IF FrameLength(wire'.frame) = 8 /\ FrameFlags(wire'.frame) \in {0, 1}
        THEN /\ wire'.open
             /\ parser' = [byte |-> 0, is_ack |-> FrameFlags(wire'.frame),
                           opaque_8bytes |-> <<0, 0, 0, 0>>]
        ELSE /\ ~wire'.open
             /\ parser' = parser
             /\ t'.closed

\* C34: grpc_chttp2_ping_parser_begin_frame succeeds exactly on a length of
\* 8 with no flag bit but ACK, and then zeroes the byte counter and the
\* value.  Whatever slices the payload then arrives in, the counter stays
\* within 8, and with the eighth byte the parser holds the big-endian value
\* of the payload, which is the opaque value grpc_chttp2_ping_create built
\* the frame from.
C34_OpaqueRoundTrip == []OpaqueAccumulated /\ [][BeginFrameStep]_vars

\* The value 0xffff8000000000ff has come through, in several slices with
\* an empty one among them, on a parser that had held another value.
C34_Witness ==
    /\ wire.pos = 8
    /\ wire.empty_seen
    /\ parser.opaque_8bytes = <<65535, 32768, 0, 255>>
    /\ t.frames = 2
    /\ t.ping_acks = <<<<258, 772, 1286, 1800>>>>

----------------------------------------------------------------------------
(* C35: a closure is re-initialised only while idle *)

\* Closure cl is re-initialised or submitted in this step: its callback
\* changes, it is registered with an endpoint operation, or it is handed to
\* the combiner.
ClosureTouched(cl) ==
    \/ conn'.closure_cb[cl] # conn.closure_cb[cl]
    \/ pending'[cl] > pending[cl]
    \/ InQueue(cl)' > InQueue(cl)

\* The uses of cl left once this step has taken the one it serves: the
\* operation that completes, or the queued closure the combiner runs.
OtherUses(cl) ==
    IF HandlerStep
    THEN Outstanding(cl) - (IF Head(queue).closure = cl THEN 1 ELSE 0)
    ELSE Outstanding(cl) - (IF CompletionStep(cl) THEN 1 ELSE 0)

\* A closure is in one place at a time, with the callback of that place.
ClosurePlaced ==
    \A cl \in Closures :
        /\ Outstanding(cl) <= 1
        /\ pending[cl] = 1 => conn.closure_cb[cl] = "callback"
        /\ InQueue(cl) = 1 => conn.closure_cb[cl] = "locked"

\* C35: a closure of the connection is re-initialised, registered with an
\* endpoint operation or handed to the combiner only by its own completion
\* callback, whose operation has just completed, or by a handler the
\* combiner runs, and at that moment it is neither registered with a
\* pending operation nor queued in the combiner.
C35_ClosureIdleWhenInitialised ==
    /\ []ClosurePlaced
    /\ [][\A cl \in Closures :
              ClosureTouched(cl) =>
                  /\ OtherUses(cl) = 0
                  /\ \/ CompletionStep(cl)
                     \/ HandlerStep
                     \/ ~conn.allocated /\ cl = "on_read_request_done"]_vars

\* The origin's read handler has deferred its bytes behind the client's
\* write in flight, whose closure it left alone, while the client's read
\* completion waits in the combiner.
C35_Witness ==
    /\ last.handler = "on_server_read_done_locked"
    /\ conn.client_deferred_write_buffer # <<>>
    /\ pending["on_client_write_done"] = 1
    /\ conn.closure_cb["on_client_write_done"] = "callback"
    /\ InQueue("on_client_read_done") = 1
    /\ pending["on_server_read_done"] = 1

\* ---------------------------------------------------------------------
\* The connected-channel filter: the callback_states of a call.
\* ---------------------------------------------------------------------

\* The closure a batch carries nowhere.
NoClosure == [kind |-> "none", at |-> 0]

\* The batches a call hands to the filter: a cancel_stream batch carries
\* its on_complete and no other operation; any other batch carries at
\* least one of the six operations, and an on_complete unless one of its
\* recv operations brings a ready callback of its own.
BatchInputs ==
    {[ops |-> {}, cancel_stream |-> TRUE, on_complete |-> TRUE]}
    \cup {batch \in [ops : (SUBSET {OpKinds[i] : i \in 1..6}) \ {{}},
                     cancel_stream : {FALSE},
                     on_complete : BOOLEAN] :
              batch.on_complete \/ batch.ops \cap RecvOps # {}}

\* get_state_for_batch with send_trailing_metadata sharing the slot of
\* send_message.
get_state_for_batch_shared_slot(ops) ==
    IF "send_initial_metadata" \in ops THEN 0
    ELSE IF "send_message" \in ops THEN 1
    ELSE IF "send_trailing_metadata" \in ops THEN 1
    ELSE IF "recv_initial_metadata" \in ops THEN 3
    ELSE IF "recv_message" \in ops THEN 4
    ELSE IF "recv_trailing_metadata" \in ops THEN 5
    ELSE -1

\* get_state_for_batch: the index in calld->on_complete of the first
\* operation the batch carries; -1 is the nullptr of the unreachable end.
get_state_for_batch(ops) ==
    IF "send_initial_metadata" \in ops THEN 0
    ELSE IF "send_message" \in ops THEN 1
    ELSE IF "send_trailing_metadata" \in ops THEN 2
    ELSE IF "recv_initial_metadata" \in ops THEN 3
    ELSE IF "recv_message" \in ops THEN 4
    ELSE IF "recv_trailing_metadata" \in ops THEN 5
    ELSE -1

\* intercept_callback: the state takes the batch's closure, whatever it
\* held, and the batch is given the state's own closure in its place.
intercept_callback(free_when_done, original_closure) ==
    [original_closure |-> original_closure,
     free_when_done |-> free_when_done,
     armed |-> TRUE]

\* run_in_call_combiner: the state's closure has run and started the
\* original closure in the call combiner; nothing reads what the state
\* held again before intercept_callback stores the next closure in it.
run_in_call_combiner(state) == NoState

\* The operations the batches the transport holds carry.
PendingOps == UNION {b.ops : b \in batches}
CancelsInFlight == {b \in batches : b.cancel_stream}

\* connected_channel_start_transport_stream_op_batch of a batch without
\* cancel_stream, none of whose operations is in a batch the transport
\* still holds.
connected_channel_start_transport_stream_op_batch ==
    \E batch \in BatchInputs :
        LET slot == get_state_for_batch(batch.ops)
            recvs == batch.ops \cap RecvOps
            taken == {calld.ready[op] : op \in recvs}
                     \cup (IF batch.on_complete
                           THEN {calld.on_complete[slot]} ELSE {})
        IN  /\ ~batch.cancel_stream
            /\ batch.ops \cap PendingOps = {}
            /\ Cardinality(batches \ CancelsInFlight) < MaxBatches
            /\ calld' =
                   [ready |->
                        [op \in RecvOps |->
                            IF op \in recvs
                            THEN intercept_callback(FALSE, {op})
                            ELSE calld.ready[op]],
                    on_complete |->
                        [i \in 0..5 |->
                            IF batch.on_complete /\ i = slot
                            THEN intercept_callback(FALSE, batch.ops)
                            ELSE calld.on_complete[i]]]
            /\ batches' = batches \cup
                   {[ops |-> batch.ops, cancel_stream |-> FALSE,
                     on_complete |-> IF batch.on_complete
                                     THEN [kind |-> "slot", at |-> slot]
                                     ELSE NoClosure,
                     ready |-> recvs]}
            /\ chanlog' =
                   [chanlog EXCEPT
                       !.overwritten = @ \/ \E st \in taken : st.armed]
            /\ UNCHANGED <<proxyvars, aborted, pingvars, heap>>

\* connected_channel_start_transport_stream_op_batch of a cancel_stream
\* batch: gpr_malloc returns memory that is not allocated.
start_cancel_stream_batch ==
    \E batch \in BatchInputs, a \in 1..MaxCancels :
        /\ batch.cancel_stream
        /\ ~heap[a].live
        /\ heap' = [heap EXCEPT
                       ![a] = [live |-> TRUE,
                               state |-> intercept_callback(
                                             TRUE, {"cancel_stream"})]]
        /\ batches' = batches \cup
               {[ops |-> {}, cancel_stream |-> TRUE,
                 on_complete |-> [kind |-> "heap", at |-> a],
                 ready |-> {}]}
        /\ chanlog' =
               [chanlog EXCEPT
                   !.overwritten = @ \/ heap[a].state.armed]
        /\ UNCHANGED <<proxyvars, aborted, pingvars, calld>>

\* What the transport holds of batch b once closure cl of it has run.
AfterClosure(b, ready, on_complete) ==
    IF ready = {} /\ on_complete.kind = "none"
    THEN batches \ {b}
    ELSE (batches \ {b})
         \cup {[b EXCEPT !.ready = ready, !.on_complete = on_complete]}

\* The transport runs the recv_*_ready closure it was given for one recv
\* operation of a batch: run_in_call_combiner of that state.
transport_runs_ready ==
    \E b \in batches, op \in RecvOps :
        /\ op \in b.ready
        /\ calld' = [calld EXCEPT
                        !.ready[op] = run_in_call_combiner(@)]
        /\ batches' = AfterClosure(b, b.ready \ {op}, b.on_complete)
        /\ chanlog' =
               [chanlog EXCEPT
                   !.misrouted =
                       @ \/ calld.ready[op].original_closure # {op}
                         \/ ~calld.ready[op].armed]
        /\ UNCHANGED <<proxyvars, aborted, pingvars, heap>>

\* The transport runs the on_complete closure it was given for a batch
\* without cancel_stream: run_in_call_combiner of the slot's state.
transport_runs_on_complete ==
    \E b \in batches :
        /\ b.on_complete.kind = "slot"
        /\ calld' = [calld EXCEPT
                        !.on_complete[b.on_complete.at] =
                            run_in_call_combiner(@)]
        /\ batches' = AfterClosure(b, b.ready, NoClosure)
        /\ chanlog' =
               [chanlog EXCEPT
                   !.misrouted =
                       @ \/ calld.on_complete[b.on_complete.at]
                                .original_closure # b.ops
                         \/ ~calld.on_complete[b.on_complete.at].armed]
        /\ UNCHANGED <<proxyvars, aborted, pingvars, heap>>

\* The transport runs the on_complete closure of a cancel_stream batch:
\* run_cancel_in_call_combiner, which runs the state and then frees it.
transport_runs_cancel ==
    \E b \in batches :
        /\ b.on_complete.kind = "heap"
        /\ heap' = [heap EXCEPT
                       ![b.on_complete.at] =
                           [live |-> @.live /\ ~@.state.free_when_done,
                            state |-> run_in_call_combiner(@.state)]]
        /\ batches' = AfterClosure(b, b.ready, NoClosure)
        /\ chanlog' =
               [chanlog EXCEPT
                   !.misrouted = @ \/ ~heap[b.on_complete.at].state.armed,
                   !.bad_free =
                       @ \/ /\ heap[b.on_complete.at].state.free_when_done
                            /\ ~heap[b.on_complete.at].live]
        /\ UNCHANGED <<proxyvars, aborted, pingvars, calld>>

NextChannel ==
    \/ connected_channel_start_transport_stream_op_batch
    \/ start_cancel_stream_batch
    \/ transport_runs_ready
    \/ transport_runs_on_complete
    \/ transport_runs_cancel

SpecChannel == Init /\ [][NextChannel]_vars

\* The on_complete states the batches the transport holds were given.
SlotBatches == {b \in batches : b.on_complete.kind = "slot"}

\* No state was taken while armed, every closure that ran found its own
\* batch's closure, and every batch the transport holds owns its states.
StatesOwned ==
    /\ ~chanlog.overwritten
    /\ ~chanlog.misrouted
    /\ ~chanlog.bad_free
    /\ \A b1, b2 \in SlotBatches :
           b1.on_complete.at = b2.on_complete.at => b1 = b2
    /\ \A b \in SlotBatches :
           /\ calld.on_complete[b.on_complete.at].armed
           /\ calld.on_complete[b.on_complete.at].original_closure = b.ops
    /\ \A b \in batches : \A op \in b.ready : calld.ready[op].armed
    /\ \A b1, b2 \in CancelsInFlight :
           b1.on_complete.at = b2.on_complete.at => b1 = b2
    /\ \A b \in CancelsInFlight :
           /\ heap[b.on_complete.at].live
           /\ heap[b.on_complete.at].state.armed
    /\ \A a \in 1..MaxCancels :
           heap[a].live <=> \E b \in CancelsInFlight : b.on_complete.at = a

\* A cancel state is freed in the step that runs its closure, and in no
\* other.
CancelStateStep ==
    \A a \in 1..MaxCancels :
        /\ heap[a].live /\ ~heap'[a].live =>
               /\ heap[a].state.armed
               /\ \E b \in CancelsInFlight :
                      b.on_complete.at = a /\ b \notin batches'
        /\ ~heap[a].live /\ heap'[a].live =>
               \E b \in batches' \ batches : b.on_complete.at = a

\* C36: given that each of the six operations is in at most one batch the
\* transport holds, no callback_state is given a closure while the one it
\* holds has not run: batches without cancel_stream held together have
\* different on_complete slots, and each cancel_stream batch has a state
\* of its own, allocated when the batch starts and freed once, in the
\* step that runs its closure.
C36_NoStateOverwrittenWhilePending ==
    []StatesOwned /\ [][CancelStateStep]_vars

\* Two batches without cancel_stream hold different on_complete slots
\* while two cancel_stream batches are in flight, and the ready closure
\* of one of the former has run already.
C36_Witness ==
    /\ Cardinality(SlotBatches) >= 2
    /\ Cardinality(CancelsInFlight) = 2
    /\ \E b \in SlotBatches :
           /\ Cardinality(b.ops) >= 2
           /\ b.ready # b.ops \cap RecvOps

====
